---- MODULE Spec2Model ----
(***************************************************************************)
(* SatShor image collector (src/image_collector): quality scoring and      *)
(* strategy dispatch (collection_core.py), the two set-cover solvers       *)
(* (coverage_optimizer.py), the programmatic collection run                *)
(* (collection_core.py, collector.py, downloader.py) and the job scheduler *)
(* (scheduler.py, scheduler_daemon.py).                                    *)
(*                                                                         *)
(* Arithmetic is exact: every fraction is kept as an integer numerator     *)
(* over a denominator named next to it.                                    *)
(*   quality_score      numerator over ScoreDen(products)                  *)
(*   cost, objective    numerator over 1000 * ScoreDen(products)           *)
(*   coverage_fraction  numerator over total_points                        *)
(*   uncovered_area_m2  numerator over total_points                        *)
(*   weights            tenths                                             *)
(* A footprint is represented by its trace on the AOI sample grid: the set *)
(* of sample point indices (0-based, as in the code) that it covers.       *)
(* Product and candidate indices are 0-based as in the code; a TLA+        *)
(* sequence position is the index plus one.                                *)
(***************************************************************************)
EXTENDS Integers, Sequences, FiniteSets, TLC

\* Bounds of the model.
MaxProducts == 2
MaxPoints == 2

\* (aoi_coverage_pct, cloud_cover_float, date_diff_days) of the products drawn.
ProductKinds ==
    { [aoi_coverage_pct |-> 100, cloud_cover_float |-> 0,  date_diff_days |-> 0],
      [aoi_coverage_pct |-> 50,  cloud_cover_float |-> 80, date_diff_days |-> 1] }

\* min_coverage_fraction values drawn, as <<numerator, denominator>>.
CoverageFractions == { <<1, 2>>, <<99, 100>>, <<1, 1>> }

\* aoi_area_m2 values drawn (a 10 km x 10 km square).
AoiAreas == { 100000000 }

\* (coverage_cloud_weight, coverage_quality_weight) drawn, in tenths.
CoverageWeights == { <<3, 7>> }

Strategies == { "best_n", "coverage_greedy", "coverage_optimal" }

VARIABLES
    processed_products, \* list of product dictionaries given to auto_select_products
    num_sample_points,  \* number of points the grid sampler yields for the AOI
    aoi_area_m2,
    pc,                 \* position of the run
    args,               \* arguments of the auto_select_products call, each
                        \* recorded where the call first reads it
    candidates,         \* select_covering_products: list of CoverageCandidate
    coverage_sets,      \* select_covering_products: coverage_sets[j]
    uncovered_points,   \* greedy_set_cover locals
    selected_indices,
    iteration,
    milp,               \* what optimal_set_cover_milp returned (NoResult for None)
    milp_status,        \* optimal_set_cover_milp: what the back-end did
    result,             \* CoverageResult of select_covering_products
    fallback,           \* why the coverage strategy fell back to best_n, or "none"
    selected,           \* list returned by auto_select_products (product indices)
    calls,              \* number of auto_select_products calls made on the batch
    output_dir,         \* run_collection: what output_dir holds for each product name
    product_idx,        \* run_collection: position of the download loop
    attempts,           \* what the loop did for each product
    downloaded_products,
    errors,
    collection_result,  \* the CollectionResult run_collection returned
    credentials,        \* what the environment holds for get_access_token
    aoi_file,           \* what load_aoi_data finds at aoi_path
    catalog,            \* what the catalogue server answers, page by page
    request_count,      \* fetch_products locals
    all_products,
    fetch_error,        \* the exception that ended fetch_products' loop, or "none"
    config,             \* the SchedulerConfig load_config returned
    scheduler,          \* ScheduledCollector.scheduler: "none", or its state
    jobs,               \* the jobs added to the scheduler
    running,            \* running[j]: instances of job j executing in the pool
    failed,             \* jobs of which an execution has failed
    daemon_pc,          \* position of the daemon's main thread
    signal_at,          \* where the main thread was when a signal arrived, or "none"
    exit_code,          \* exit code of the daemon, or -1 while it runs
    pid_file,           \* --pid-file: "not_given", or the file "absent" / "exists"
    found_products,     \* products: the records fetch_products returned
    record_idx,         \* position of run_collection's filter loop in products
    job_config,         \* the job configuration execute_job is called with
    params              \* the parameters of the run_collection call

\* The variables of select_covering_products and its solvers.
coverage_vars == << num_sample_points, aoi_area_m2, candidates, coverage_sets,
                    uncovered_points, selected_indices, iteration, milp,
                    milp_status, result, fallback >>

select_vars == << calls >>

\* The variables of run_collection.
collect_vars == << output_dir, product_idx, attempts, downloaded_products, errors,
                   collection_result >>

\* The inputs of run_collection and the variables of fetch_products.
fetch_vars == << credentials, aoi_file, catalog, request_count, all_products,
                 fetch_error >>

\* The variables of the scheduler daemon.
sched_vars == << config, scheduler, jobs, running, failed, daemon_pc, signal_at,
                 exit_code, pid_file >>

\* The variables of run_collection's filter loop.
filter_vars == << found_products, record_idx >>

\* The variables of execute_job.
execute_vars == << job_config, params >>

\* What one auto_select_products call leaves alone.
other_vars == << select_vars, collect_vars, fetch_vars, sched_vars, filter_vars, execute_vars >>

vars == << processed_products, pc, args, selected, coverage_vars, other_vars >>

----------------------------------------------------------------------------
\* Helpers

Min(a, b) == IF a <= b THEN a ELSE b
Max(a, b) == IF a >= b THEN a ELSE b

RECURSIVE SeqMax(_)
SeqMax(s) == IF Len(s) = 1 THEN s[1] ELSE Max(s[1], SeqMax(Tail(s)))

RECURSIVE UnionOver(_, _)
\* union of sets[j] for j in the set of positions js
UnionOver(sets, js) ==
    IF js = {} THEN {}
    ELSE LET j == CHOOSE k \in js : TRUE
         IN  sets[j] \cup UnionOver(sets, js \ {j})

RECURSIVE SumOver(_, _)
SumOver(f, js) ==
    IF js = {} THEN 0
    ELSE LET j == CHOOSE k \in js : TRUE
         IN  f[j] + SumOver(f, js \ {j})

Range(s) == { s[k] : k \in 1..Len(s) }

NoResult == [solver_type |-> "none"]

----------------------------------------------------------------------------
\* collection_core.py: quality scoring and best_n

\* Scoring weights of auto_select_products (defaults 0.4 / 0.4 / 0.2), in tenths.
aoi_weight == 4
cloud_weight == 4
recency_weight == 2

\* max_date_diff of the batch: max(p.get("date_diff_days", 0) for p in products)
MaxDateDiff(products) ==
    SeqMax([k \in 1..Len(products) |-> products[k].date_diff_days])

\* Denominator of the quality scores of a batch: 1000 * max_date_diff, or 1000
\* when max_date_diff = 0 (recency_score is then 1.0).
ScoreDen(products) ==
    LET d == MaxDateDiff(products) IN 1000 * (IF d > 0 THEN d ELSE 1)

\* calculate_quality_score, numerator over ScoreDen. With D = ScoreDen / 1000:
\*   aoi_weight * aoi/100 + cloud_weight * (1 - cloud/100)
\*     + recency_weight * (1 - dd/max_dd)             (1.0 when max_dd = 0)
calculate_quality_score(aoi_coverage_pct, cloud_cover_pct, date_diff_days, max_date_diff_days) ==
    LET D       == IF max_date_diff_days > 0 THEN max_date_diff_days ELSE 1
        aoi     == aoi_weight * aoi_coverage_pct * D
        cloud   == cloud_weight * (100 - cloud_cover_pct) * D
        recency == IF max_date_diff_days > 0
                   THEN recency_weight * 100 * (max_date_diff_days - date_diff_days)
                   ELSE recency_weight * 100
    IN  Max(0, Min(1000 * D, aoi + cloud + recency))

\* ScoreProducts adding the new score to the quality_score the product carries.
ScoreProducts_Accumulate(products) ==
    [k \in 1..Len(products) |->
        [products[k] EXCEPT !.quality_score =
            Min(ScoreDen(products),
                products[k].quality_score
                  + calculate_quality_score(products[k].aoi_coverage_pct,
                                            products[k].cloud_cover_float,
                                            products[k].date_diff_days,
                                            MaxDateDiff(products)))]]

\* The scoring loop of auto_select_products: writes product["quality_score"].
ScoreProducts(products) ==
    [k \in 1..Len(products) |->
        [products[k] EXCEPT !.quality_score =
            calculate_quality_score(products[k].aoi_coverage_pct,
                                    products[k].cloud_cover_float,
                                    products[k].date_diff_days,
                                    MaxDateDiff(products))]]

\* sorted(products, key=quality_score, reverse=True): a stable sort, so products
\* of equal score keep their input order. The list is kept as product indices.
RECURSIVE InsertByScore(_, _, _)
InsertByScore(products, s, i) ==
    IF s = << >> THEN << i >>
    ELSE IF products[s[1] + 1].quality_score < products[i + 1].quality_score
         THEN << i >> \o s
         ELSE << s[1] >> \o InsertByScore(products, Tail(s), i)

RECURSIVE SortedUpTo(_, _)
SortedUpTo(products, n) ==
    IF n = 0 THEN << >>
    ELSE InsertByScore(products, SortedUpTo(products, n - 1), n - 1)

sorted_products(products) == SortedUpTo(products, Len(products))

\* Strategy best_n: return sorted_products[:max_products]
BestN(products, max_products) ==
    SubSeq(sorted_products(products), 1, Min(max_products, Len(products)))

\* CoverageFallback returning the first max_products of the unsorted list.
CoverageFallback_Unsorted(products, max_products) ==
    [k \in 1..Min(max_products, Len(products)) |-> k - 1]

\* The return of the coverage branch when a precondition is missing or the
\* optimizer raised: "Falling back to best_n", sorted_products[:max_products]
CoverageFallback(products, max_products) ==
    LET sorted == sorted_products(products)
    IN  [k \in 1..Min(max_products, Len(sorted)) |-> sorted[k]]

----------------------------------------------------------------------------
\* coverage_optimizer.py: candidates, greedy_set_cover, optimal_set_cover_milp

\* ExtractCandidates with index = position among the candidates instead of the
\* position in the original product list.
RECURSIVE ExtractCandidates_CandidatePosition(_, _)
ExtractCandidates_CandidatePosition(products, n) ==
    IF n = 0 THEN << >>
    ELSE LET rest == ExtractCandidates_CandidatePosition(products, n - 1)
             p    == products[n]
         IN  IF ~p.has_footprint THEN rest
             ELSE Append(rest, [index         |-> Len(rest),
                                cloud_cover   |-> Max(0, Min(100, p.cloud_cover_float)),
                                quality_score |-> p.quality_score])

\* The extraction loop of select_covering_products: one candidate per product
\* that carries a footprint, in input order, with index = position in the
\* original product list and cloud_cover clamped to [0, 100].
RECURSIVE ExtractCandidates(_, _)
ExtractCandidates(products, n) ==
    IF n = 0 THEN << >>
    ELSE LET rest == ExtractCandidates(products, n - 1)
             p    == products[n]
         IN  IF ~p.has_footprint THEN rest
             ELSE Append(rest, [index         |-> n - 1,
                                cloud_cover   |-> Max(0, Min(100, p.cloud_cover_float)),
                                quality_score |-> p.quality_score])

\* build_coverage_matrix: coverage_sets[j] = sample points covered by footprint j.
build_coverage_matrix(products, cands, total_points) ==
    [j \in 1..Len(cands) |->
        { i \in 0..(total_points - 1) : i \in products[cands[j].index + 1].footprint }]

\* int(total_points * min_coverage_fraction)
TargetPoints(total_points, fraction) == (total_points * fraction[1]) \div fraction[2]

\* cost = max(cloud_weight * cloud/100 + quality_weight * (1 - quality_score), 0.01)
\* numerator over 1000 * den, where den is the denominator of quality_score.
Cost(candidate, cw, qw, den) ==
    Max(cw * candidate.cloud_cover * den + qw * 100 * (den - candidate.quality_score),
        10 * den)

\* epsilon = 1e-6 over the same denominator
Epsilon(den) == den \div 1000

\* ScanCandidates in which a candidate also replaces the best when its
\* gain/cost is equal.
RECURSIVE ScanCandidates_LastWins(_, _, _, _, _, _, _, _)
ScanCandidates_LastWins(j, best, cands, sets, uncovered, chosen, w, den) ==
    IF j > Len(cands) THEN best
    ELSE LET marginal_gain == Cardinality(sets[j] \cap uncovered)
             cost          == Cost(cands[j], w[1], w[2], den)
             next ==
                IF j \in Range(chosen) \/ marginal_gain = 0 THEN best
                ELSE IF marginal_gain * best.cost >= best.gain * cost
                     THEN [idx |-> j, gain |-> marginal_gain, cost |-> cost]
                     ELSE best
         IN  ScanCandidates_LastWins(j + 1, next, cands, sets, uncovered, chosen, w, den)

\* The for loop of one greedy iteration, from candidate position j on; best is
\* (best_candidate_idx, best_gain, cost of the best), position 0 standing for
\* None and gain 0 over cost 1 for best_gain_per_cost = 0. A candidate replaces
\* the best only when its gain/cost is strictly greater.
RECURSIVE ScanCandidates(_, _, _, _, _, _, _, _)
ScanCandidates(j, best, cands, sets, uncovered, chosen, w, den) ==
    IF j > Len(cands) THEN best
    ELSE LET marginal_gain == Cardinality(sets[j] \cap uncovered)
             cost          == Cost(cands[j], w[1], w[2], den)
             next ==
                IF j \in Range(chosen) \/ marginal_gain = 0 THEN best
                ELSE IF marginal_gain * best.cost > best.gain * cost
                     THEN [idx |-> j, gain |-> marginal_gain, cost |-> cost]
                     ELSE best
         IN  ScanCandidates(j + 1, next, cands, sets, uncovered, chosen, w, den)

\* BestCandidate with the scan starting at the second candidate.
BestCandidate_SkipFirst(cands, sets, uncovered, chosen, w, den) ==
    ScanCandidates(2, [idx |-> 0, gain |-> 0, cost |-> 1],
                   cands, sets, uncovered, chosen, w, den)

\* The for loop of one greedy iteration, over all candidates.
BestCandidate(cands, sets, uncovered, chosen, w, den) ==
    ScanCandidates(1, [idx |-> 0, gain |-> 0, cost |-> 1],
                   cands, sets, uncovered, chosen, w, den)

\* GreedyResult with uncovered_area_m2 taken from the covered share.
GreedyResult_CoveredArea(cands, chosen, uncovered, total_points, area) ==
    [ selected_indices    |-> [k \in 1..Len(chosen) |-> cands[chosen[k]].index],
      coverage_fraction   |-> total_points - Cardinality(uncovered),
      uncovered_area_m2   |-> (total_points - Cardinality(uncovered)) * area,
      num_candidates      |-> Len(cands),
      num_selected        |-> Len(chosen),
      solver_type         |-> "greedy",
      optimal             |-> FALSE ]

\* The CoverageResult greedy_set_cover returns from its final locals.
GreedyResult(cands, chosen, uncovered, total_points, area) ==
    [ selected_indices    |-> [k \in 1..Len(chosen) |-> cands[chosen[k]].index],
      coverage_fraction   |-> total_points - Cardinality(uncovered),
      uncovered_area_m2   |-> Cardinality(uncovered) * area,
      num_candidates      |-> Len(cands),
      num_selected        |-> Len(chosen),
      solver_type         |-> "greedy",
      optimal             |-> FALSE ]

\* The while loop of greedy_set_cover run to its end: the final locals.
RECURSIVE GreedyLoop(_, _, _, _, _, _, _, _)
GreedyLoop(cands, sets, uncovered, chosen, total, target, w, d) ==
    IF Cardinality(uncovered) <= total - target
    THEN [selected_indices |-> chosen, uncovered_points |-> uncovered]
    ELSE LET best == BestCandidate(cands, sets, uncovered, chosen, w, d)
         IN  IF best.idx = 0
             THEN [selected_indices |-> chosen, uncovered_points |-> uncovered]
             ELSE GreedyLoop(cands, sets, uncovered \ sets[best.idx],
                             Append(chosen, best.idx), total, target, w, d)

\* greedy_set_cover as a function of its arguments.
greedy_set_cover(cands, sets, total, area, fraction, w, d) ==
    LET final == GreedyLoop(cands, sets, 0..(total - 1), << >>, total,
                            TargetPoints(total, fraction), w, d)
    IN  GreedyResult(cands, final.selected_indices, final.uncovered_points, total, area)

\* MilpConstraints without the link between p_i and the x_j covering i.
MilpConstraints_Unlinked(X, P, sets, total_points, target_points) ==
    Cardinality(P) >= target_points

\* MilpConstraints without the minimum coverage requirement.
MilpConstraints_NoMinimum(X, P, sets, total_points, target_points) ==
    \A i \in P : \E j \in X : i \in sets[j]

\* The binary program of optimal_set_cover_milp. X is the set of candidate
\* positions with x_j = 1, P the set of points with p_i = 1.
\*   p_i <= sum of x_j over the candidates covering i   (p_i = 0 when none does)
\*   sum of p_i >= target_points
MilpConstraints(X, P, sets, total_points, target_points) ==
    /\ \A i \in P : \E j \in X : i \in sets[j]
    /\ Cardinality(P) >= target_points

\* Objective with the cost terms left out: the cardinality penalty alone.
Objective_CardinalityOnly(X, cands, w, den) ==
    Epsilon(den) * Cardinality(X)

\* sum of cost_j * x_j  +  epsilon * sum of x_j
Objective(X, cands, w, den) ==
    SumOver([j \in 1..Len(cands) |-> Cost(cands[j], w[1], w[2], den)], X)
        + Epsilon(den) * Cardinality(X)

\* The assignments of x the constraints admit.
MilpFeasible(sets, total_points, target_points) ==
    { X \in SUBSET (1..Len(sets)) :
        \E P \in SUBSET (0..(total_points - 1)) :
            MilpConstraints(X, P, sets, total_points, target_points) }

\* The assignments a solve that ends OPTIMAL may report.
MilpOptimal(cands, sets, total_points, target_points, w, den) ==
    LET feasible == MilpFeasible(sets, total_points, target_points)
        objs     == { Objective(X, cands, w, den) : X \in feasible }
        best     == CHOOSE m \in objs : \A n \in objs : m <= n
    IN  { X \in feasible : Objective(X, cands, w, den) = best }

\* MilpResult with coverage_fraction summed over the selected coverage sets
\* instead of taken from their union.
MilpResult_SumOfSets(X, cands, sets, total_points, area, optimal) ==
    LET RECURSIVE Extract(_)
        Extract(j) == IF j = 0 THEN << >>
                      ELSE IF j \in X THEN Append(Extract(j - 1), cands[j].index)
                           ELSE Extract(j - 1)
        covered == SumOver([j \in 1..Len(sets) |-> Cardinality(sets[j])], X)
    IN  [ selected_indices  |-> Extract(Len(cands)),
          coverage_fraction |-> covered,
          uncovered_area_m2 |-> (total_points - covered) * area,
          num_candidates    |-> Len(cands),
          num_selected      |-> Len(Extract(Len(cands))),
          solver_type       |-> "milp",
          optimal           |-> optimal ]

\* Solution extraction of optimal_set_cover_milp (x_j > 0.5, j ascending) and
\* the CoverageResult it returns.
MilpResult(X, cands, sets, total_points, area, optimal) ==
    LET RECURSIVE Extract(_)
        Extract(j) == IF j = 0 THEN << >>
                      ELSE IF j \in X THEN Append(Extract(j - 1), cands[j].index)
                           ELSE Extract(j - 1)
        covered_points_set == UnionOver(sets, X)
    IN  [ selected_indices  |-> Extract(Len(cands)),
          coverage_fraction |-> Cardinality(covered_points_set),
          uncovered_area_m2 |-> (total_points - Cardinality(covered_points_set)) * area,
          num_candidates    |-> Len(cands),
          num_selected      |-> Len(Extract(Len(cands))),
          solver_type       |-> "milp",
          optimal           |-> optimal ]

----------------------------------------------------------------------------
\* State machine of one auto_select_products call

DefaultFraction == << 99, 100 >>
DefaultWeights == << 3, 7 >>
MaxProductsChoices == { 1, 5 }

Product(kind, has_fp, fp) ==
    [ aoi_coverage_pct  |-> kind.aoi_coverage_pct,
      cloud_cover_float |-> kind.cloud_cover_float,
      date_diff_days    |-> kind.date_diff_days,
      has_footprint     |-> has_fp,
      footprint         |-> fp,
      quality_score     |-> 0 ]

\* The products a batch may hold when the AOI has m sample points.
Products(m) ==
    { Product(k, TRUE, fp) : k \in ProductKinds, fp \in SUBSET (0..(m - 1)) }
        \cup { Product(k, FALSE, {}) : k \in ProductKinds }

\* No call of auto_select_products has been made on the batch.
SelectIdle == calls = 0

\* CollectionResult before run_collection has returned one. The two product
\* counts of the result are left out.
NoCollectionResult ==
    [ success |-> FALSE, downloaded_products |-> << >>, errors |-> << >>,
      message |-> "" ]

\* run_collection is not running.
CollectIdle ==
    /\ output_dir = << >>
    /\ product_idx = 0
    /\ attempts = << >>
    /\ downloaded_products = << >>
    /\ errors = << >>
    /\ collection_result = NoCollectionResult

\* No scheduler daemon is running.
SchedIdle ==
    /\ config = << >>
    /\ scheduler = "none"
    /\ jobs = {}
    /\ running = << >>
    /\ failed = {}
    /\ daemon_pc = "none"
    /\ signal_at = "none"
    /\ exit_code = -1
    /\ pid_file = "not_given"

\* No job is being executed.
ExecuteIdle ==
    /\ job_config = << >>
    /\ params = << >>

\* No filter loop is under way.
FilterIdle ==
    /\ found_products = << >>
    /\ record_idx = 0

\* No catalogue search is under way.
FetchIdle ==
    /\ credentials = "token"
    /\ aoi_file = "polygon"
    /\ catalog = << >>
    /\ request_count = 0
    /\ all_products = 0
    /\ fetch_error = "none"

Init ==
    /\ num_sample_points \in 0..MaxPoints
    /\ \E n \in 1..MaxProducts :
          processed_products \in [1..n -> Products(num_sample_points)]
    /\ aoi_area_m2 \in AoiAreas
    /\ pc = "start"
    /\ args = [strategy |-> "", max_products |-> 0,
               min_coverage_fraction |-> DefaultFraction, weights |-> DefaultWeights]
    /\ candidates = << >>
    /\ coverage_sets = << >>
    /\ uncovered_points = {}
    /\ selected_indices = << >>
    /\ iteration = 0
    /\ milp = NoResult
    /\ milp_status = ""
    /\ result = NoResult
    /\ fallback = "none"
    /\ selected = << >>
    /\ SelectIdle
    /\ CollectIdle
    /\ FetchIdle
    /\ SchedIdle
    /\ FilterIdle
    /\ ExecuteIdle

\* Which precondition of the coverage path is missing, in the order the code
\* tests them; "none" when the solver is reached.
\*   optimizer: COVERAGE_OPTIMIZER_AVAILABLE
\*   aoi: "none" (aoi_geom, aoi_area_m2 or target_crs is None), "polygon", or
\*        "other" (select_covering_products raises ValueError on the type)
MissingPrecondition(products, optimizer, aoi, total_points) ==
    IF ~optimizer THEN "optimizer_unavailable"
    ELSE IF aoi = "none" THEN "aoi_none"
    ELSE IF ~(\E k \in 1..Len(products) : products[k].has_footprint) THEN "no_footprint"
    ELSE IF aoi = "other" THEN "optimizer_raised"
    ELSE IF total_points = 0 THEN "no_sample_points"
    ELSE "none"

\* auto_select_products with strategy best_n: score, sort, return the first
\* max_products.
AutoSelectBestN(max_products) ==
    /\ pc = "start"
    /\ processed_products' = ScoreProducts(processed_products)
    /\ args' = [args EXCEPT !.strategy = "best_n", !.max_products = max_products]
    /\ selected' = BestN(processed_products', max_products)
    /\ pc' = "done"
    /\ UNCHANGED << num_sample_points, aoi_area_m2, candidates, coverage_sets,
                    uncovered_points, selected_indices, iteration, milp, milp_status,
                    result, fallback >>
    /\ UNCHANGED other_vars

\* auto_select_products with a coverage strategy, up to the call of the solver
\* inside select_covering_products; or the whole call when a precondition is
\* missing and the function returns sorted_products[:max_products].
\* max_products is read by the fallback return only, min_coverage_fraction and
\* the weights by select_covering_products only.
AutoSelectCoverage(strategy, max_products, fraction, w, optimizer, aoi) ==
    /\ pc = "start"
    /\ strategy \in { "coverage_greedy", "coverage_optimal" }
    /\ processed_products' = ScoreProducts(processed_products)
    /\ LET missing == MissingPrecondition(processed_products', optimizer, aoi,
                                          num_sample_points)
           cands   == ExtractCandidates(processed_products', Len(processed_products'))
       IN  IF missing # "none"
           THEN /\ fallback' = missing
                /\ args' = [args EXCEPT !.strategy = strategy,
                                        !.max_products = max_products]
                /\ selected' = CoverageFallback(processed_products', max_products)
                /\ pc' = "done"
                /\ UNCHANGED << candidates, coverage_sets, uncovered_points >>
           ELSE /\ args' = [args EXCEPT !.strategy = strategy,
                                        !.min_coverage_fraction = fraction,
                                        !.weights = w]
                /\ candidates' = cands
                /\ coverage_sets' = build_coverage_matrix(processed_products', cands,
                                                          num_sample_points)
                /\ uncovered_points' = 0..(num_sample_points - 1)
                /\ pc' = IF strategy = "coverage_greedy" THEN "greedy" ELSE "milp"
                /\ UNCHANGED << fallback, selected >>
    /\ UNCHANGED << num_sample_points, aoi_area_m2, selected_indices, iteration,
                    milp, milp_status, result >>
    /\ UNCHANGED other_vars

total_points == num_sample_points
target_points == TargetPoints(total_points, args.min_coverage_fraction)
den == ScoreDen(processed_products)

\* GreedyIterate that also removes the newly covered points from the coverage
\* sets of the other candidates.
GreedyIterate_ShrinkSets ==
    /\ pc = "greedy"
    /\ Cardinality(uncovered_points) > total_points - target_points
    /\ LET best == BestCandidate(candidates, coverage_sets, uncovered_points,
                                 selected_indices, args.weights, den)
       IN  /\ best.idx # 0
           /\ selected_indices' = Append(selected_indices, best.idx)
           /\ uncovered_points' = uncovered_points \ coverage_sets[best.idx]
           /\ coverage_sets' =
                 [j \in 1..Len(coverage_sets) |->
                     IF j = best.idx THEN coverage_sets[j]
                     ELSE coverage_sets[j] \ coverage_sets[best.idx]]
           /\ iteration' = iteration + 1
    /\ UNCHANGED << processed_products, num_sample_points, aoi_area_m2, pc, args,
                    candidates, milp, milp_status, result, fallback, selected >>
    /\ UNCHANGED other_vars

\* GreedyIterate selecting the first candidate, whatever its gain.
GreedyIterate_FirstCandidate ==
    /\ pc = "greedy"
    /\ Cardinality(uncovered_points) > total_points - target_points
    /\ selected_indices' = Append(selected_indices, 1)
    /\ uncovered_points' = uncovered_points \ coverage_sets[1]
    /\ iteration' = iteration + 1
    /\ UNCHANGED << processed_products, num_sample_points, aoi_area_m2, pc, args,
                    candidates, coverage_sets, milp, milp_status, result, fallback,
                    selected >>
    /\ UNCHANGED other_vars

\* GreedyIterate without the update of uncovered_points.
GreedyIterate_KeepUncovered ==
    /\ pc = "greedy"
    /\ Cardinality(uncovered_points) > total_points - target_points
    /\ LET best == BestCandidate(candidates, coverage_sets, uncovered_points,
                                 selected_indices, args.weights, den)
       IN  /\ best.idx # 0
           /\ selected_indices' = Append(selected_indices, best.idx)
           /\ iteration' = iteration + 1
    /\ UNCHANGED << processed_products, num_sample_points, aoi_area_m2, pc, args,
                    candidates, coverage_sets, uncovered_points, milp, milp_status,
                    result, fallback, selected >>
    /\ UNCHANGED other_vars

\* One iteration of the while loop of greedy_set_cover that selects a candidate.
GreedyIterate ==
    /\ pc = "greedy"
    /\ Cardinality(uncovered_points) > total_points - target_points
    /\ LET best == BestCandidate(candidates, coverage_sets, uncovered_points,
                                 selected_indices, args.weights, den)
       IN  /\ best.idx # 0
           /\ selected_indices' = Append(selected_indices, best.idx)
           /\ uncovered_points' = uncovered_points \ coverage_sets[best.idx]
           /\ iteration' = iteration + 1
    /\ UNCHANGED << processed_products, num_sample_points, aoi_area_m2, pc, args,
                    candidates, coverage_sets, milp, milp_status, result, fallback,
                    selected >>
    /\ UNCHANGED other_vars

\* GreedyReturn without the break: the loop ends only when its condition fails.
GreedyReturn_NoBreak ==
    /\ pc = "greedy"
    /\ Cardinality(uncovered_points) <= total_points - target_points
    /\ result' = GreedyResult(candidates, selected_indices, uncovered_points,
                              total_points, aoi_area_m2)
    /\ pc' = "return"
    /\ UNCHANGED << processed_products, num_sample_points, aoi_area_m2, args,
                    candidates, coverage_sets, uncovered_points, selected_indices,
                    iteration, milp, milp_status, fallback, selected >>
    /\ UNCHANGED other_vars

\* The end of greedy_set_cover: the loop condition fails, or no candidate has
\* positive gain (break); the result is built and select_covering_products
\* returns it.
GreedyReturn ==
    /\ pc = "greedy"
    /\ \/ Cardinality(uncovered_points) <= total_points - target_points
       \/ BestCandidate(candidates, coverage_sets, uncovered_points,
                        selected_indices, args.weights, den).idx = 0
    /\ result' = GreedyResult(candidates, selected_indices, uncovered_points,
                              total_points, aoi_area_m2)
    /\ pc' = "return"
    /\ UNCHANGED << processed_products, num_sample_points, aoi_area_m2, args,
                    candidates, coverage_sets, uncovered_points, selected_indices,
                    iteration, milp, milp_status, fallback, selected >>
    /\ UNCHANGED other_vars

\* optimal_set_cover_milp. status is what the back-end does:
\*   "ORTOOLS_UNAVAILABLE"  the import failed, return None
\*   "NO_SOLVER"            CreateSolver('CBC') returned nothing, return None
\*   "OPTIMAL"              a minimum of the program
\*   "FEASIBLE"             time limit reached with some feasible incumbent
\*   "INFEASIBLE"           the program has no solution, return None
\*   "NOT_SOLVED"           time limit reached without incumbent, or an error
OptimalSetCoverMilp(status) ==
    /\ pc = "milp"
    /\ LET feasible == MilpFeasible(coverage_sets, total_points, target_points)
       IN  \/ /\ status \in { "ORTOOLS_UNAVAILABLE", "NO_SOLVER", "NOT_SOLVED" }
              /\ milp' = NoResult
           \/ /\ status = "INFEASIBLE"
              /\ feasible = {}
              /\ milp' = NoResult
           \/ /\ status = "OPTIMAL"
              /\ feasible # {}
              /\ \E X \in MilpOptimal(candidates, coverage_sets, total_points,
                                      target_points, args.weights, den) :
                    milp' = MilpResult(X, candidates, coverage_sets, total_points,
                                       aoi_area_m2, TRUE)
           \/ /\ status = "FEASIBLE"
              /\ \E X \in feasible :
                    milp' = MilpResult(X, candidates, coverage_sets, total_points,
                                       aoi_area_m2, FALSE)
    /\ milp_status' = status
    /\ pc' = "milp_returned"
    /\ UNCHANGED << processed_products, num_sample_points, aoi_area_m2, args,
                    candidates, coverage_sets, uncovered_points, selected_indices,
                    iteration, result, fallback, selected >>
    /\ UNCHANGED other_vars

\* select_covering_products after optimal_set_cover_milp returned a result.
MilpAccepted ==
    /\ pc = "milp_returned"
    /\ milp # NoResult
    /\ result' = milp
    /\ pc' = "return"
    /\ milp_status' = ""
    /\ UNCHANGED << processed_products, num_sample_points, aoi_area_m2, args,
                    candidates, coverage_sets, uncovered_points, selected_indices,
                    iteration, milp, fallback, selected >>
    /\ UNCHANGED other_vars

\* MilpFallback without the fallback: the None of the MILP is the result.
MilpFallback_ReturnsNone ==
    /\ pc = "milp_returned"
    /\ milp = NoResult
    /\ pc' = "return"
    /\ milp_status' = ""
    /\ UNCHANGED << processed_products, num_sample_points, aoi_area_m2, args,
                    candidates, coverage_sets, uncovered_points, selected_indices,
                    iteration, milp, result, fallback, selected >>
    /\ UNCHANGED other_vars

\* select_covering_products after optimal_set_cover_milp returned None: "MILP
\* solver failed, falling back to greedy algorithm".
MilpFallback ==
    /\ pc = "milp_returned"
    /\ milp = NoResult
    /\ pc' = "greedy"
    /\ milp_status' = ""
    /\ UNCHANGED << processed_products, num_sample_points, aoi_area_m2, args,
                    candidates, coverage_sets, uncovered_points, selected_indices,
                    iteration, milp, result, fallback, selected >>
    /\ UNCHANGED other_vars

\* auto_select_products after select_covering_products returned:
\* selected = [processed_products[i] for i in coverage_result.selected_indices]
ReturnSelected ==
    /\ pc = "return"
    /\ selected' = result.selected_indices
    /\ pc' = "done"
    /\ UNCHANGED << processed_products, num_sample_points, aoi_area_m2, args,
                    candidates, coverage_sets, uncovered_points, selected_indices,
                    iteration, milp, milp_status, result, fallback >>
    /\ UNCHANGED other_vars

Next ==
    \/ \E mp \in MaxProductsChoices : AutoSelectBestN(mp)
    \/ \E s \in Strategies, mp \in MaxProductsChoices, f \in CoverageFractions,
          w \in CoverageWeights, optimizer \in BOOLEAN,
          aoi \in { "none", "polygon", "other" } :
            AutoSelectCoverage(s, mp, f, w, optimizer, aoi)
    \/ GreedyIterate
    \/ GreedyReturn
    \/ \E status \in { "ORTOOLS_UNAVAILABLE", "NO_SOLVER", "OPTIMAL", "FEASIBLE",
                       "INFEASIBLE", "NOT_SOLVED" } : OptimalSetCoverMilp(status)
    \/ MilpAccepted
    \/ MilpFallback
    \/ ReturnSelected

Spec == Init /\ [][Next]_vars

----------------------------------------------------------------------------
\* Properties

\* The universe: the sample points some candidate covers.
Universe == UnionOver(coverage_sets, 1..Len(coverage_sets))

\* Candidate positions a CoverageResult names through its selected_indices.
SelectedPositions(res) ==
    { j \in 1..Len(candidates) : candidates[j].index \in Range(res.selected_indices) }

Distinct(s) == \A a, b \in 1..Len(s) : a # b => s[a] # s[b]

\* a/b >= f and a/b < f for the fraction f = <<numerator, denominator>>, b > 0
AtLeast(a, b, f) == a * f[2] >= f[1] * b
Below(a, b, f) == a * f[2] < f[1] * b

GreedyReturned == result.solver_type = "greedy"
MilpReturned == result.solver_type = "milp"

\* C1 (as stated): greedy feasibility. Whenever the universe holds at least the
\* fraction min_coverage_fraction of the M sample points, the result of
\* greedy_set_cover has coverage_fraction >= min_coverage_fraction.
C1_GreedyFeasibility ==
    (GreedyReturned
        /\ AtLeast(Cardinality(Universe), total_points, args.min_coverage_fraction))
    => AtLeast(result.coverage_fraction, total_points, args.min_coverage_fraction)

\* C2 (as stated): selection validity. The entries of selected_indices are
\* pairwise distinct and each lies in [0, num_candidates).
C2_IndicesBelowNumCandidates ==
    result # NoResult
    => /\ Distinct(result.selected_indices)
       /\ \A i \in Range(result.selected_indices) : 0 <= i /\ i < result.num_candidates

\* C2 (amended): the entries of selected_indices are pairwise distinct and each
\* is a position of the product list given, in [0, len(processed_products)),
\* at which the product carries a footprint.
C2_IndicesOfFootprintProducts ==
    result # NoResult
    => /\ Distinct(result.selected_indices)
       /\ \A i \in Range(result.selected_indices) :
            /\ 0 <= i /\ i < Len(processed_products)
            /\ processed_products[i + 1].has_footprint

\* C2 witness: a solver returned a selection for a list in which a product
\* without footprint precedes a selected product.
C2_Witness ==
    /\ result # NoResult
    /\ result.num_selected >= 1
    /\ result.num_candidates < Len(processed_products)
    /\ \E i \in Range(result.selected_indices) : i >= 1

\* C3: coverage_fraction of a CoverageResult is the number of sample points in
\* the union of the coverage sets of the selected candidates (over M), and
\* num_selected is the length of selected_indices.
C3_CoverageFractionIsUnion ==
    result # NoResult
    => /\ result.coverage_fraction
            = Cardinality(UnionOver(coverage_sets, SelectedPositions(result)))
       /\ result.num_selected = Len(result.selected_indices)
       /\ Cardinality(SelectedPositions(result)) = result.num_selected

\* C3 witness: the MILP returned two candidates whose coverage sets overlap.
C3_Witness ==
    /\ MilpReturned
    /\ result.num_selected = 2
    /\ \E a, b \in SelectedPositions(result) :
          a # b /\ coverage_sets[a] \cap coverage_sets[b] # {}

\* C4: coverage-area identity. uncovered_area_m2 = (1 - coverage_fraction) *
\* aoi_area_m2, both sides over the denominator M, and it is >= 0.
C4_CoverageAreaIdentity ==
    result # NoResult
    => /\ result.uncovered_area_m2
            = (total_points - result.coverage_fraction) * aoi_area_m2
       /\ result.uncovered_area_m2 >= 0

\* C4 witness: greedy returned a partial cover.
C4_Witness ==
    /\ GreedyReturned
    /\ 0 < result.coverage_fraction
    /\ result.coverage_fraction < total_points

\* C5: the loop of greedy_set_cover performs at most min(N, M) selections, N
\* the number of candidates and M the number of sample points.
C5_GreedyIterationBound ==
    /\ iteration <= Min(Len(candidates), total_points)
    /\ Len(selected_indices) = iteration

\* C5 witness: greedy returned after min(N, M) = 2 selections.
C5_Witness ==
    /\ GreedyReturned
    /\ iteration = 2
    /\ Min(Len(candidates), total_points) = 2

\* C6: greedy universe bound. When the universe holds less than the fraction
\* min_coverage_fraction of the sample points, greedy_set_cover returns with
\* exactly the points of the universe covered and no candidate has positive gain.
C6_GreedyUniverseBound ==
    (GreedyReturned
        /\ Below(Cardinality(Universe), total_points, args.min_coverage_fraction))
    => /\ result.coverage_fraction = Cardinality(Universe)
       /\ uncovered_points \cap Universe = {}
       /\ BestCandidate(candidates, coverage_sets, uncovered_points,
                        selected_indices, args.weights, den).idx = 0

\* C6 witness: greedy returned on an instance with two candidates whose universe
\* is non-empty and misses the target, after selecting one of them.
C6_Witness ==
    /\ GreedyReturned
    /\ Below(Cardinality(Universe), total_points, args.min_coverage_fraction)
    /\ Cardinality(Universe) >= 1
    /\ Len(candidates) = 2
    /\ result.num_selected = 1

\* The result greedy_set_cover gives on the instance of the run.
GreedyOnInstance ==
    greedy_set_cover(candidates, coverage_sets, total_points, aoi_area_m2,
                     args.min_coverage_fraction, args.weights, den)

\* sum over the selected j of (cost_j + 1e-6), over the denominator 1000 * den
SelectionObjective(res) ==
    SumOver([j \in 1..Len(candidates) |->
                Cost(candidates[j], args.weights[1], args.weights[2], den)
                    + Epsilon(den)],
            SelectedPositions(res))

\* C7: MILP dominance. When the MILP returned optimal = true and the greedy
\* selection on the same instance covers at least floor(M * f) points, the
\* objective of the MILP selection is at most that of the greedy selection.
C7_MilpDominance ==
    (milp # NoResult /\ milp.optimal
        /\ GreedyOnInstance.coverage_fraction >= target_points)
    => SelectionObjective(milp) <= SelectionObjective(GreedyOnInstance)

\* C7 witness: the MILP returned an optimum strictly cheaper than the feasible
\* greedy selection.
C7_Witness ==
    /\ milp # NoResult
    /\ milp.optimal
    /\ GreedyOnInstance.coverage_fraction >= target_points
    /\ SelectionObjective(milp) < SelectionObjective(GreedyOnInstance)

\* C8 (as stated): when the universe holds fewer than floor(M * f) points,
\* optimal_set_cover_milp returns a CoverageResult with solver_type "milp".
C8_MilpCoversUpToUniverse ==
    (pc = "milp_returned" /\ Cardinality(Universe) < target_points)
    => (milp # NoResult /\ milp.solver_type = "milp")

\* C8 (amended): when the universe holds fewer than floor(M * f) points,
\* optimal_set_cover_milp returns None, and the result select_covering_products
\* then returns is greedy's, covering exactly the universe.
C8_MilpReturnsNoneBelowTarget ==
    (args.strategy = "coverage_optimal" /\ fallback = "none"
        /\ Cardinality(Universe) < target_points)
    => /\ milp = NoResult
       /\ result # NoResult
            => (GreedyReturned /\ result.coverage_fraction = Cardinality(Universe))

\* C8 witness: the back-end reported the program infeasible on an instance whose
\* non-empty universe misses the target.
C8_Witness ==
    /\ pc = "milp_returned"
    /\ milp_status = "INFEASIBLE"
    /\ Cardinality(Universe) >= 1
    /\ Cardinality(Universe) < target_points

\* C9: MILP failure fallback. Under coverage_optimal, once
\* optimal_set_cover_milp returned None, the result of
\* select_covering_products is the result of greedy_set_cover on the same
\* candidates, coverage sets and weights, with solver_type "greedy" and
\* optimal = false, and auto_select_products returns its selection.
C9_MilpFailureFallback ==
    (args.strategy = "coverage_optimal" /\ fallback = "none" /\ milp = NoResult
        /\ pc \in { "return", "done" })
    => /\ result = GreedyOnInstance
       /\ result.solver_type = "greedy"
       /\ result.optimal = FALSE
       /\ pc = "done" => selected = result.selected_indices

\* C9 witness: a coverage_optimal call ended with the greedy selection after
\* the MILP returned None on an instance the MILP could have solved.
C9_Witness ==
    /\ pc = "done"
    /\ args.strategy = "coverage_optimal"
    /\ fallback = "none"
    /\ milp = NoResult
    /\ MilpFeasible(coverage_sets, total_points, target_points) # {}
    /\ Len(selected) >= 1

\* C10: strategy fallback. A coverage_greedy or coverage_optimal call that
\* misses a coverage precondition returns the list best_n returns for the same
\* products and max_products.
C10_StrategyFallback ==
    (pc = "done" /\ fallback # "none")
    => selected = BestN(processed_products, args.max_products)

\* C10 witness: the sampler yielded no point, and the call returned the better
\* scored second product alone.
C10_Witness ==
    /\ pc = "done"
    /\ fallback = "no_sample_points"
    /\ args.max_products = 1
    /\ Len(processed_products) = 2
    /\ selected = << 1 >>

----------------------------------------------------------------------------
\* collection_core.py: the strategies best_n, all_above_threshold and
\* best_per_week of auto_select_products, on batches that carry sensing dates

MaxCalls == 2

\* datetime's proleptic Gregorian calendar; a date is << year, month, day >>.
IsLeap(y) == y % 4 = 0 /\ (y % 100 # 0 \/ y % 400 = 0)

DaysBeforeYear(y) ==
    (y - 1) * 365 + (y - 1) \div 4 - (y - 1) \div 100 + (y - 1) \div 400

DaysInMonth(y, m) ==
    IF m = 2 THEN (IF IsLeap(y) THEN 29 ELSE 28)
    ELSE IF m \in { 4, 6, 9, 11 } THEN 30 ELSE 31

DaysBeforeMonth(y, m) == SumOver([k \in 1..12 |-> DaysInMonth(y, k)], 1..(m - 1))

\* date.toordinal(): 1 for 0001-01-01
toordinal(date) == DaysBeforeYear(date[1]) + DaysBeforeMonth(date[1], date[2]) + date[3]

\* Ordinal of the Monday that starts ISO week 1 of the year: the week that
\* holds the year's first Thursday.
IsoWeek1Monday(y) ==
    LET firstday     == toordinal(<< y, 1, 1 >>)
        firstweekday == (firstday + 6) % 7
        week1monday  == firstday - firstweekday
    IN  IF firstweekday > 3 THEN week1monday + 7 ELSE week1monday

\* date.isocalendar(): << ISO year, ISO week number >>
isocalendar(date) ==
    LET today == toordinal(date)
        week  == (today - IsoWeek1Monday(date[1])) \div 7
    IN  IF week < 0
        THEN << date[1] - 1, (today - IsoWeek1Monday(date[1] - 1)) \div 7 + 1 >>
        ELSE IF week >= 52 /\ today >= IsoWeek1Monday(date[1] + 1)
             THEN << date[1] + 1, 1 >>
             ELSE << date[1], week + 1 >>

\* week_key = f"{sensing_date.year}-W{sensing_date.isocalendar()[1]:02d}": the
\* calendar year of the date with the ISO week number of the date.
week_key(date) == << date[1], isocalendar(date)[2] >>

\* A product whose sensing_date is None.
NoDate == << >>

\* abs((sensing_date - center_date).days), 999999 without a sensing date.
DateDiff(date, center_date) ==
    IF date = NoDate THEN 999999
    ELSE IF toordinal(date) >= toordinal(center_date)
         THEN toordinal(date) - toordinal(center_date)
         ELSE toordinal(center_date) - toordinal(date)

SensingDates == { << 2024, 1, 1 >>, << 2024, 12, 29 >>, << 2024, 12, 30 >>,
                  << 2025, 1, 1 >> }
CentralDate == << 2024, 7, 1 >>

SelectKinds ==
    { [aoi_coverage_pct |-> 100, cloud_cover_float |-> 0],
      [aoi_coverage_pct |-> 100, cloud_cover_float |-> 50],
      [aoi_coverage_pct |-> 50,  cloud_cover_float |-> 0] }

QualityThresholds == { 700, 900 }

\* The processed product dictionary with its sensing_date.
DatedProduct(kind, date) ==
    [ aoi_coverage_pct  |-> kind.aoi_coverage_pct,
      cloud_cover_float |-> kind.cloud_cover_float,
      date_diff_days    |-> DateDiff(date, CentralDate),
      sensing_date      |-> date,
      has_footprint     |-> FALSE,
      footprint         |-> {},
      quality_score     |-> 0 ]

DatedProducts ==
    { DatedProduct(k, d) : k \in SelectKinds, d \in SensingDates \cup { NoDate } }

\* list.sort(key=quality_score, reverse=True) of a list of product indices: stable.
RECURSIVE SortByScore(_, _)
SortByScore(products, s) ==
    IF s = << >> THEN << >>
    ELSE InsertByScore(products, SortByScore(products, SubSeq(s, 1, Len(s) - 1)),
                       s[Len(s)])

\* Strategy all_above_threshold; the threshold is in thousandths.
AllAboveThreshold(products, quality_threshold) ==
    SelectSeq(sorted_products(products),
              LAMBDA i : products[i + 1].quality_score
                            >= quality_threshold * (ScoreDen(products) \div 1000))

\* weekly_products of best_per_week: the products with a sensing date, in
\* sorted order, and the week keys in the order the dictionary received them.
DatedSorted(products) ==
    SelectSeq(sorted_products(products),
              LAMBDA i : products[i + 1].sensing_date # NoDate)

WeekKeys(products, dated) ==
    LET key(k) == week_key(products[dated[k] + 1].sensing_date)
        first  == { k \in 1..Len(dated) : \A h \in 1..(k - 1) : key(h) # key(k) }
    IN  [ n \in 1..Cardinality(first) |->
            key(CHOOSE k \in first : Cardinality({ h \in first : h <= k }) = n) ]

WeekGroup(products, dated, key) ==
    SelectSeq(dated, LAMBDA i : week_key(products[i + 1].sensing_date) = key)

\* max(products, key=quality_score): the first product of maximal score
FirstMax(products, group) ==
    LET score(k) == products[group[k] + 1].quality_score
    IN  group[CHOOSE k \in 1..Len(group) :
                /\ \A h \in 1..Len(group) : score(h) <= score(k)
                /\ \A h \in 1..(k - 1) : score(h) < score(k)]

\* Strategy best_per_week.
BestPerWeek(products) ==
    LET dated == DatedSorted(products)
        keys  == WeekKeys(products, dated)
    IN  SortByScore(products,
                    [ n \in 1..Len(keys) |->
                        FirstMax(products, WeekGroup(products, dated, keys[n])) ])

CoverageIdle ==
    /\ num_sample_points = 0
    /\ aoi_area_m2 \in AoiAreas
    /\ candidates = << >>
    /\ coverage_sets = << >>
    /\ uncovered_points = {}
    /\ selected_indices = << >>
    /\ iteration = 0
    /\ milp = NoResult
    /\ milp_status = ""
    /\ result = NoResult
    /\ fallback = "none"

InitSelect ==
    /\ \E n \in 1..MaxProducts : processed_products \in [1..n -> DatedProducts]
    /\ pc = "start"
    /\ args = [strategy |-> "", max_products |-> 0,
               min_coverage_fraction |-> DefaultFraction, weights |-> DefaultWeights]
    /\ selected = << >>
    /\ calls = 0
    /\ CoverageIdle
    /\ CollectIdle
    /\ FetchIdle
    /\ SchedIdle
    /\ FilterIdle
    /\ ExecuteIdle

AutoSelectAllAboveThreshold(quality_threshold) ==
    /\ pc = "start"
    /\ processed_products' = ScoreProducts(processed_products)
    /\ args' = [args EXCEPT !.strategy = "all_above_threshold"]
    /\ selected' = AllAboveThreshold(processed_products', quality_threshold)
    /\ pc' = "done"
    /\ UNCHANGED << coverage_vars, other_vars >>

AutoSelectBestPerWeek ==
    /\ pc = "start"
    /\ processed_products' = ScoreProducts(processed_products)
    /\ args' = [args EXCEPT !.strategy = "best_per_week"]
    /\ selected' = BestPerWeek(processed_products')
    /\ pc' = "done"
    /\ UNCHANGED << coverage_vars, other_vars >>

\* The caller hands the batch, whose dictionaries now carry quality_score, to
\* auto_select_products once more.
CallAgain ==
    /\ pc = "done"
    /\ calls + 1 < MaxCalls
    /\ calls' = calls + 1
    /\ pc' = "start"
    /\ selected' = << >>
    /\ args' = [args EXCEPT !.strategy = "", !.max_products = 0]
    /\ UNCHANGED << processed_products, coverage_vars, collect_vars, fetch_vars,
                    sched_vars, filter_vars, execute_vars >>

NextSelect ==
    \/ \E mp \in MaxProductsChoices : AutoSelectBestN(mp)
    \/ \E t \in QualityThresholds : AutoSelectAllAboveThreshold(t)
    \/ AutoSelectBestPerWeek
    \/ CallAgain

SpecSelect == InitSelect /\ [][NextSelect]_vars

Score(i) == processed_products[i + 1].quality_score
Returned(strategy) == pc = "done" /\ args.strategy = strategy

\* The order the tie-break rule describes: higher score, then higher AOI
\* coverage, then lower cloud cover, then smaller date distance.
TieBreakBefore(i, j) ==
    LET p == processed_products[i + 1]
        q == processed_products[j + 1]
    IN  \/ p.quality_score > q.quality_score
        \/ /\ p.quality_score = q.quality_score
           /\ \/ p.aoi_coverage_pct > q.aoi_coverage_pct
              \/ /\ p.aoi_coverage_pct = q.aoi_coverage_pct
                 /\ \/ p.cloud_cover_float < q.cloud_cover_float
                    \/ /\ p.cloud_cover_float = q.cloud_cover_float
                       /\ p.date_diff_days < q.date_diff_days

Unselected == (0..(Len(processed_products) - 1)) \ Range(selected)

\* C11: best_n returns the first max_products products of the order
\* by score descending with ties broken by higher AOI coverage, lower cloud
\* cover, smaller date distance: no product comes after, or is left out in
\* favour of, a product it precedes in that order.
C11_BestNTieBreak ==
    Returned("best_n") =>
        /\ Len(selected) = Min(args.max_products, Len(processed_products))
        /\ Distinct(selected)
        /\ \A a, b \in 1..Len(selected) :
              a < b => ~TieBreakBefore(selected[b], selected[a])
        /\ \A u \in Unselected : \A a \in 1..Len(selected) :
              ~TieBreakBefore(u, selected[a])

IsoWeekOf(i) == isocalendar(processed_products[i + 1].sensing_date)

AllDated == \A k \in 1..Len(processed_products) :
                processed_products[k].sensing_date # NoDate

\* C12 as stated: on a batch whose products all carry a sensing date,
\* best_per_week returns exactly one product per ISO (year, week) pair of the
\* batch, that product has the maximum score of its ISO year-week, and the
\* output is sorted by score descending; also around a year boundary.
C12_BestPerWeekIsoGrouping ==
    (Returned("best_per_week") /\ AllDated) =>
        /\ Distinct(selected)
        /\ \A a, b \in 1..Len(selected) :
              a # b => IsoWeekOf(selected[a]) # IsoWeekOf(selected[b])
        /\ \A i \in 0..(Len(processed_products) - 1) :
              \E a \in 1..Len(selected) :
                 /\ IsoWeekOf(selected[a]) = IsoWeekOf(i)
                 /\ Score(selected[a]) >= Score(i)
        /\ \A a, b \in 1..Len(selected) :
              a < b => Score(selected[a]) >= Score(selected[b])

\* C13: every auto_select_products call leaves each quality_score in [0, 1],
\* and a call on a batch that already carries the scores of an earlier call
\* writes the same quality_score to every product.
C13_ScoringIdempotent ==
    [][(pc = "start" /\ pc' = "done") =>
          /\ Len(processed_products') = Len(processed_products)
          /\ \A k \in 1..Len(processed_products) :
                /\ processed_products'[k].quality_score >= 0
                /\ processed_products'[k].quality_score <= ScoreDen(processed_products')
                /\ calls >= 1 => processed_products'[k].quality_score
                                    = processed_products[k].quality_score]_vars

\* A second call has returned on a batch with a score strictly inside (0, 1).
C13_Witness ==
    /\ pc = "done"
    /\ calls = 1
    /\ \E k \in 1..Len(processed_products) :
          /\ processed_products[k].quality_score > 0
          /\ processed_products[k].quality_score < ScoreDen(processed_products)

----------------------------------------------------------------------------
\* collection_core.py, downloader.py: the download loop of run_collection,
\* from the point where auto_select_products has returned a non-empty list

\* What output_dir holds for one product name:
\*   dir        output_dir/<name> is a directory (the extract path of
\*              download_product and the metadata directory of run_collection)
\*   extracted  the archive was extracted into it
\*   metadata   metadata.json: "none", or "valid" (its product_name is <name>)
\*   zip        output_dir/<name>.zip: "none", "good", or "bad" (truncated or
\*              not a zip archive)
Absent == [dir |-> FALSE, extracted |-> FALSE, metadata |-> "none", zip |-> "none"]

InitialEntries ==
    { Absent,
      [Absent EXCEPT !.dir = TRUE, !.extracted = TRUE, !.metadata = "valid"],
      [Absent EXCEPT !.dir = TRUE, !.extracted = TRUE],
      [Absent EXCEPT !.zip = "good"],
      [Absent EXCEPT !.zip = "bad"] }

\* What the server and the network do when the archive is requested.
DownloadFailures == { "http_error", "network_error", "size_mismatch", "bad_archive" }
DownloadOutcomes == { "ok" } \cup DownloadFailures

check_already_downloaded(entry) == entry.dir /\ entry.metadata = "valid"

\* _unzip_and_remove: TRUE iff the archive could be extracted
unzip_and_remove(zip) == zip = "good"

\* The step download_product takes for a product:
\*   "already_extracted"   the extract path is a directory, return
\*   "unzipped_existing"   an archive is there and could be extracted, return
\*   outcome               the archive is requested from the server
DownloadStep(entry, outcome) ==
    IF entry.dir THEN "already_extracted"
    ELSE IF entry.zip # "none" /\ unzip_and_remove(entry.zip) THEN "unzipped_existing"
    ELSE outcome

\* download_product: what it leaves in output_dir. It returns None on every
\* path; HTTPError, RequestException and any other exception of the download
\* are caught, logged and followed by _cleanup_incomplete_file. A size
\* mismatch is printed, the archive is neither extracted nor removed.
download_product(entry, outcome) ==
    LET step == DownloadStep(entry, outcome)
    IN  IF step = "already_extracted" THEN entry
        ELSE IF step \in { "unzipped_existing", "ok" }
             THEN [entry EXCEPT !.dir = TRUE, !.extracted = TRUE, !.zip = "none"]
        ELSE IF step \in { "http_error", "network_error" }
             THEN [entry EXCEPT !.zip = "none"]
        ELSE [entry EXCEPT !.zip = "bad"]

NotAttempted == [step |-> "none", metadata_written |-> FALSE]

InitDownload ==
    /\ \E n \in 1..MaxProducts :
          /\ selected = [k \in 1..n |-> k - 1]
          /\ output_dir \in [0..(n - 1) -> InitialEntries]
          /\ attempts = [q \in 0..(n - 1) |-> NotAttempted]
    /\ pc = "download"
    /\ product_idx = 1
    /\ downloaded_products = << >>
    /\ errors = << >>
    /\ collection_result = NoCollectionResult
    /\ processed_products = << >>
    /\ args = [strategy |-> "", max_products |-> 0,
               min_coverage_fraction |-> DefaultFraction, weights |-> DefaultWeights]
    /\ SelectIdle
    /\ CoverageIdle
    /\ FetchIdle
    /\ SchedIdle
    /\ FilterIdle
    /\ ExecuteIdle

\* One iteration of "for product in selected_products". write_ok: the metadata
\* file can be written (else open raises OSError after mkdir).
DownloadSelected(outcome, write_ok) ==
    /\ pc = "download"
    /\ product_idx <= Len(selected)
    /\ LET product_name == selected[product_idx]
           entry        == output_dir[product_name]
           after        == download_product(entry, outcome)
       IN  IF check_already_downloaded(entry)
           THEN /\ downloaded_products' = Append(downloaded_products, product_name)
                /\ attempts' = [attempts EXCEPT ![product_name] =
                                  [step |-> "already_downloaded",
                                   metadata_written |-> FALSE]]
                /\ UNCHANGED << output_dir, errors >>
           ELSE /\ attempts' = [attempts EXCEPT ![product_name] =
                                  [step |-> DownloadStep(entry, outcome),
                                   metadata_written |-> write_ok]]
                /\ IF write_ok
                   THEN /\ output_dir' = [output_dir EXCEPT ![product_name] =
                                            [after EXCEPT !.dir = TRUE,
                                                          !.metadata = "valid"]]
                        /\ downloaded_products' =
                              Append(downloaded_products, product_name)
                        /\ UNCHANGED errors
                   ELSE /\ output_dir' = [output_dir EXCEPT ![product_name] =
                                            [after EXCEPT !.dir = TRUE]]
                        /\ errors' = Append(errors, product_name)
                        /\ UNCHANGED downloaded_products
    /\ product_idx' = product_idx + 1
    /\ UNCHANGED << processed_products, pc, args, selected, collection_result,
                    coverage_vars, select_vars, sched_vars, filter_vars, execute_vars, fetch_vars >>

\* The return after the loop.
ReturnDownloaded ==
    /\ pc = "download"
    /\ product_idx > Len(selected)
    /\ collection_result' =
          [ success |-> Len(downloaded_products) > 0,
            downloaded_products |-> downloaded_products,
            errors |-> errors,
            message |-> "Downloaded X of Y selected products" ]
    /\ pc' = "returned"
    /\ UNCHANGED << processed_products, args, selected, output_dir, product_idx,
                    attempts, downloaded_products, errors, coverage_vars,
                    select_vars, sched_vars, filter_vars, execute_vars, fetch_vars >>

NextDownload ==
    \/ \E outcome \in DownloadOutcomes, write_ok \in BOOLEAN :
          DownloadSelected(outcome, write_ok)
    \/ ReturnDownloaded

SpecDownload == InitDownload /\ [][NextDownload]_vars

DownloadFailed(q) == attempts[q].step \in DownloadFailures

----------------------------------------------------------------------------
\* collector.py, collection_core.py: the catalogue search of run_collection,
\* from the call of fetch_products to the first return after it

MaxPages == 3
PageSizes == { 0, 1, 2 }

\* A page the server answers with: "ok" with products and possibly an
\* @odata.nextLink, or a failed request ("request_exception": connection
\* error, timeout or HTTP error status; "invalid_json": a body that is no JSON).
FetchFailures == { "request_exception", "invalid_json" }
OkPage(n, next) == [status |-> "ok", products |-> n, next_link |-> next]
FailedPage(e) == [status |-> e, products |-> 0, next_link |-> FALSE]

LastPages == { OkPage(n, FALSE) : n \in PageSizes } \cup { FailedPage(e) : e \in FetchFailures }

\* The answers to one search: every page but the last links to the next one.
Catalogs ==
    UNION { { c \in [1..n -> { OkPage(k, TRUE) : k \in PageSizes } \cup LastPages] :
                /\ c[n] \in LastPages
                /\ \A k \in 1..(n - 1) : c[k] \notin LastPages } : n \in 1..MaxPages }

\* datetime.strptime: accepts a string, raises TypeError on anything else.
strptime(value) == IF value = "str" THEN "datetime" ELSE "TypeError"

\* calculate_central_date(start_date_str, end_date_str)
calculate_central_date(start_date_str, end_date_str) ==
    IF strptime(start_date_str) = "TypeError" \/ strptime(end_date_str) = "TypeError"
    THEN "TypeError"
    ELSE "datetime"

\* The handler "except Exception as e" of run_collection.
CollectionFailed(e) ==
    [ success |-> FALSE, downloaded_products |-> downloaded_products,
      errors |-> << e >>, message |-> e ]

FetchEntry ==
    /\ catalog \in Catalogs
    /\ request_count = 0
    /\ all_products = 0
    /\ fetch_error = "none"

InitFetch ==
    /\ pc = "fetch"
    /\ credentials \in { "token", "password" }
    /\ aoi_file = "polygon"
    /\ FetchEntry
    /\ processed_products = << >>
    /\ args = [strategy |-> "", max_products |-> 0,
               min_coverage_fraction |-> DefaultFraction, weights |-> DefaultWeights]
    /\ selected = << >>
    /\ SelectIdle
    /\ CoverageIdle
    /\ CollectIdle
    /\ SchedIdle
    /\ FilterIdle
    /\ ExecuteIdle

\* One iteration of "while next_link" in fetch_products. Both except branches
\* log, print and break; fetch_products then returns what it has.
FetchPage ==
    /\ pc = "fetch"
    /\ request_count < Len(catalog)
    /\ LET page == catalog[request_count + 1]
       IN  IF page.status = "ok"
           THEN /\ all_products' = all_products + page.products
                /\ request_count' = request_count + 1
                /\ pc' = IF page.next_link THEN "fetch" ELSE "fetched"
                /\ UNCHANGED fetch_error
           ELSE /\ fetch_error' = page.status
                /\ pc' = "fetched"
                /\ UNCHANGED << all_products, request_count >>
    /\ UNCHANGED << processed_products, args, selected, coverage_vars, select_vars,
                    sched_vars, filter_vars, execute_vars,
                    collect_vars, credentials, aoi_file, catalog >>

\* "if not products": return success with "No products found".
NoProductsFound ==
    /\ pc = "fetched"
    /\ all_products = 0
    /\ collection_result' =
          [ success |-> TRUE, downloaded_products |-> << >>, errors |-> << >>,
            message |-> "No products found for the specified criteria" ]
    /\ pc' = "returned"
    /\ UNCHANGED << processed_products, args, selected, coverage_vars, select_vars,
                    sched_vars, filter_vars, execute_vars,
                    output_dir, product_idx, attempts, downloaded_products, errors,
                    fetch_vars >>

\* With products: start_date_obj and end_date_obj are parsed from the date
\* strings and handed to calculate_central_date, which parses its arguments.
ProcessProducts ==
    /\ pc = "fetched"
    /\ all_products > 0
    /\ LET start_date_obj == strptime("str")
           end_date_obj   == strptime("str")
       IN  IF calculate_central_date(start_date_obj, end_date_obj) = "TypeError"
           THEN /\ collection_result' = CollectionFailed("Collection failed: TypeError")
                /\ pc' = "returned"
           ELSE /\ pc' = "filter"
                /\ UNCHANGED collection_result
    /\ UNCHANGED << processed_products, args, selected, coverage_vars, select_vars,
                    sched_vars, filter_vars, execute_vars,
                    output_dir, product_idx, attempts, downloaded_products, errors,
                    fetch_vars >>

NextFetch ==
    \/ FetchPage
    \/ NoProductsFound
    \/ ProcessProducts

SpecFetch == InitFetch /\ [][NextFetch]_vars

----------------------------------------------------------------------------
\* collection_core.py, collector.py: a run_collection call from its entry.
\* The call of build_odata_query raises, so a call never gets to the steps
\* after it; SpecFetch and SpecDownload take those up from their entries.

\* CDSE_ACCESS_TOKEN is set ("token"), or CDSE_USERNAME and CDSE_PASSWORD are
\* set and the token endpoint accepts ("password") or rejects them
\* ("password_rejected"), or nothing is set ("none").
CredentialChoices == { "token", "password", "password_rejected", "none" }

\* get_access_token: the token, or sys.exit(1)
get_access_token(cred) ==
    IF cred \in { "token", "password" } THEN "access_token" ELSE "SystemExit"

\* aoi_path holds a polygon, a file without polygon geometry, no file, or a
\* polygon that cannot be reprojected for the WKT.
AoiFiles == { "polygon", "empty", "missing", "no_wkt" }

\* load_aoi_data: "loaded" when both aoi_wkt and aoi_gdf are returned, else
\* "none" (one of them is None)
load_aoi_data(file) == IF file = "polygon" THEN "loaded" ELSE "none"

\* def build_odata_query(aoi_wkt, start_date_str, end_date_str,
\*                       max_cloud_cover=100, product_level="L2A",
\*                       satellite="SENTINEL-2")
QueryParameters ==
    { "aoi_wkt", "start_date_str", "end_date_str", "max_cloud_cover",
      "product_level", "satellite" }
QueryRequired == { "aoi_wkt", "start_date_str", "end_date_str" }

\* The keywords run_collection calls build_odata_query with.
QueryKeywords == { "aoi_wkt", "start_date", "end_date", "product_level" }

\* Python's binding of a keyword-only call: TypeError on a keyword that is no
\* parameter or on a required parameter without argument.
BindArguments(keywords, parameters, required) ==
    IF keywords \subseteq parameters /\ required \subseteq keywords
    THEN "bound"
    ELSE "TypeError"

build_odata_query(keywords) ==
    IF BindArguments(keywords, QueryParameters, QueryRequired) = "bound"
    THEN "full_query_url"
    ELSE "TypeError"

InitCollect ==
    /\ pc = "call"
    /\ credentials \in CredentialChoices
    /\ aoi_file \in AoiFiles
    /\ FetchEntry
    /\ processed_products = << >>
    /\ args = [strategy |-> "", max_products |-> 0,
               min_coverage_fraction |-> DefaultFraction, weights |-> DefaultWeights]
    /\ selected = << >>
    /\ SelectIdle
    /\ CoverageIdle
    /\ CollectIdle
    /\ SchedIdle
    /\ FilterIdle
    /\ ExecuteIdle

\* access_token = get_access_token(); sys.exit(1) raises SystemExit, which
\* "except Exception" does not catch: the call ends without a result.
GetAccessToken ==
    /\ pc = "call"
    /\ pc' = IF get_access_token(credentials) = "SystemExit"
             THEN "exited" ELSE "load_aoi"
    /\ UNCHANGED << processed_products, args, selected, coverage_vars, select_vars,
                    sched_vars, filter_vars, execute_vars,
                    collect_vars, fetch_vars >>

LoadAoi ==
    /\ pc = "load_aoi"
    /\ IF load_aoi_data(aoi_file) = "none"
       THEN /\ collection_result' =
                  [ success |-> FALSE, downloaded_products |-> << >>,
                    errors |-> << "Failed to load AOI data" >>,
                    message |-> "Failed to load AOI from aoi_path" ]
            /\ pc' = "returned"
       ELSE /\ pc' = "build_query"
            /\ UNCHANGED collection_result
    /\ UNCHANGED << processed_products, args, selected, coverage_vars, select_vars,
                    sched_vars, filter_vars, execute_vars,
                    output_dir, product_idx, attempts, downloaded_products, errors,
                    fetch_vars >>

BuildQuery ==
    /\ pc = "build_query"
    /\ IF build_odata_query(QueryKeywords) = "TypeError"
       THEN /\ collection_result' = CollectionFailed("Collection failed: TypeError")
            /\ pc' = "returned"
       ELSE /\ pc' = "fetch"
            /\ UNCHANGED collection_result
    /\ UNCHANGED << processed_products, args, selected, coverage_vars, select_vars,
                    sched_vars, filter_vars, execute_vars,
                    output_dir, product_idx, attempts, downloaded_products, errors,
                    fetch_vars >>

NextCollect ==
    \/ GetAccessToken
    \/ LoadAoi
    \/ BuildQuery

SpecCollect == InitCollect /\ [][NextCollect]_vars

\* The catalogue has no product for the search.
CatalogEmpty ==
    \A k \in 1..Len(catalog) : catalog[k].status = "ok" /\ catalog[k].products = 0

\* C17 as stated: when the AOI loads and credentials are present, a
\* run_collection job whose catalog search returns no products ends with
\* success = true, an empty downloaded_products list and no errors.
C17_EmptySearchSucceeds ==
    (/\ credentials \in { "token", "password" }
     /\ aoi_file = "polygon"
     /\ CatalogEmpty
     /\ pc = "returned")
        => /\ collection_result.success = TRUE
           /\ collection_result.downloaded_products = << >>
           /\ collection_result.errors = << >>

----------------------------------------------------------------------------
\* collection_core.py: the filter loop of run_collection, from the point where
\* the products are sorted and the AOI is projected.

MaxRecords == 2

\* The size filter: 600 * 1024 * 1024 bytes; sizes are kept in MiB.
MinContentLength == 600

\* max_cloud and min_aoi of the call.
FilterSettings == [max_cloud |-> 50, min_aoi |-> 50]

\* Attribute cloudCover of a record: absent ("none"), a number ("num"), a
\* string that float() parses ("str") or one it does not ("bad_str").
CloudCover(kind, value) == [kind |-> kind, value |-> value]

\* A record of the catalogue.
\*   ContentLength  size in MiB, or -1 for None
\*   cloudCover     see CloudCover
\*   GeoFootprint   "missing" (None), "empty" (''), "unparseable" (wkt_loads
\*                  raises), "raises" (to_crs or intersection raises), or "ok"
\*   coverage       intersection area / AOI area * 100, for a footprint "ok"
\*   Start          ContentDate.Start: "none", "invalid", "utc" (ends in Z),
\*                  or "naive" (ISO format without offset)
\*   days           days between Start and the centre date, when Start parses
Record(length, cloud, footprint, coverage, start, days) ==
    [ContentLength |-> length, cloudCover |-> cloud, GeoFootprint |-> footprint,
     coverage |-> coverage, Start |-> start, days |-> days]

RecordKinds ==
    { Record(700, CloudCover("num", 10),     "ok",          100, "utc",     3),
      Record(-1,  CloudCover("none", 0),     "ok",          100, "none",    0),
      Record(700, CloudCover("bad_str", 0),  "ok",          50,  "invalid", 0),
      Record(600, CloudCover("str", 50),     "ok",          100, "naive",   1),
      Record(700, CloudCover("num", 90),     "ok",          100, "naive",   1),
      Record(599, CloudCover("num", 10),     "ok",          100, "naive",   1),
      Record(700, CloudCover("num", 10),     "ok",          40,  "naive",   1),
      Record(700, CloudCover("num", 10),     "missing",     0,   "utc",     3),
      Record(700, CloudCover("num", 10),     "empty",       0,   "naive",   1),
      Record(700, CloudCover("num", 10),     "unparseable", 0,   "naive",   1),
      Record(700, CloudCover("num", 10),     "raises",      0,   "naive",   1) }

\* products.sort(key=ContentDate.Start, reverse=True) has succeeded: the
\* records all have a Start string, or none has (None and str do not compare).
Sortable(batch) ==
    \A i, j \in 1..Len(batch) : (batch[i].Start = "none") = (batch[j].Start = "none")

Batches ==
    { b \in UNION { [1..n -> RecordKinds] : n \in 1..MaxRecords } : Sortable(b) }

\* "if isinstance(cloud_cover, str): try float(...) except ValueError: None";
\* NoCloud stands for None.
NoCloud == -1
cloud_cover_of(attr) ==
    IF attr.kind \in { "num", "str" } THEN attr.value ELSE NoCloud

\* datetime.fromisoformat(Start.replace('Z', '+00:00')): an aware datetime for
\* a string ending in Z, a naive one for a string without offset, ValueError
\* for any other string.
fromisoformat(start) ==
    IF start = "utc" THEN "aware" ELSE IF start = "naive" THEN "naive" ELSE "ValueError"

\* center_date is what calculate_central_date returns: built by strptime
\* with the format %Y-%m-%d, a naive datetime.
center_date == "naive"

\* abs((sensing_date - center_date).days); the subtraction of a naive from an
\* aware datetime raises TypeError, which "except (ValueError, AttributeError)"
\* does not catch. 999999 without a date that parses.
date_diff_of(record) ==
    IF record.Start = "none" THEN 999999
    ELSE IF fromisoformat(record.Start) = "ValueError" THEN 999999
    ELSE IF fromisoformat(record.Start) # center_date THEN -1
    ELSE record.days

\* The footprint of the record cannot be used: no GeoFootprint, or the try
\* block around wkt_loads, to_crs and intersection raises.
FootprintFails(record) == record.GeoFootprint # "ok"

\* What one iteration does with a record: "skip" (a continue), "keep"
\* (append to processed_results) or "TypeError" (an exception leaves the loop).
FilterStep(record) ==
    LET cloud_cover == cloud_cover_of(record.cloudCover)
    IN  IF cloud_cover # NoCloud /\ cloud_cover > FilterSettings.max_cloud THEN "skip"
        ELSE IF record.ContentLength # -1 /\ record.ContentLength < MinContentLength
             THEN "skip"
        ELSE IF record.GeoFootprint \in { "missing", "empty" } THEN "skip"
        ELSE IF record.GeoFootprint \in { "unparseable", "raises" } THEN "skip"
        ELSE IF record.coverage < FilterSettings.min_aoi THEN "skip"
        ELSE IF date_diff_of(record) = -1 THEN "TypeError"
        ELSE "keep"

\* The entry appended to processed_results; Name is the record's position.
processed_product(i) ==
    LET record == found_products[i]
        cloud_cover == cloud_cover_of(record.cloudCover)
    IN  [ Name |-> i - 1,
          cloud_cover_float |-> IF cloud_cover # NoCloud THEN cloud_cover ELSE 0,
          aoi_coverage_pct |-> record.coverage,
          date_diff_days |-> date_diff_of(record),
          ContentLength |-> record.ContentLength ]

InitFilter ==
    /\ found_products \in Batches
    /\ record_idx = 1
    /\ pc = "filter"
    /\ processed_products = << >>
    /\ collection_result = NoCollectionResult
    /\ output_dir = << >>
    /\ product_idx = 0
    /\ attempts = << >>
    /\ downloaded_products = << >>
    /\ errors = << >>
    /\ args = [strategy |-> "", max_products |-> 0,
               min_coverage_fraction |-> DefaultFraction, weights |-> DefaultWeights]
    /\ selected = << >>
    /\ SelectIdle
    /\ CoverageIdle
    /\ FetchIdle
    /\ SchedIdle
    /\ ExecuteIdle

\* One iteration of "for product in products".
FilterRecord ==
    /\ pc = "filter"
    /\ record_idx <= Len(found_products)
    /\ LET step == FilterStep(found_products[record_idx])
       IN  /\ processed_products' =
                 IF step = "keep"
                 THEN Append(processed_products, processed_product(record_idx))
                 ELSE processed_products
           /\ IF step = "TypeError"
              THEN /\ collection_result' = CollectionFailed("Collection failed: TypeError")
                   /\ pc' = "returned"
                   /\ UNCHANGED record_idx
              ELSE /\ record_idx' = record_idx + 1
                   /\ UNCHANGED << collection_result, pc >>
    /\ UNCHANGED << found_products, args, selected, output_dir, product_idx, attempts,
                    downloaded_products, errors, coverage_vars, select_vars,
                    fetch_vars, sched_vars, execute_vars >>

\* After the loop: with nothing kept run_collection returns success with "No
\* products met the filtering criteria"; else it goes on to
\* auto_select_products.
FilterDone ==
    /\ pc = "filter"
    /\ record_idx > Len(found_products)
    /\ IF processed_products = << >>
       THEN /\ collection_result' =
                  [ success |-> TRUE, downloaded_products |-> << >>, errors |-> << >>,
                    message |-> "No products met the filtering criteria" ]
            /\ pc' = "returned"
       ELSE /\ pc' = "filtered"
            /\ UNCHANGED collection_result
    /\ UNCHANGED << processed_products, found_products, record_idx, args, selected,
                    output_dir, product_idx, attempts, downloaded_products, errors,
                    coverage_vars, select_vars, fetch_vars, sched_vars, execute_vars >>

NextFilter ==
    \/ FilterRecord
    \/ FilterDone

SpecFilter == InitFilter /\ [][NextFilter]_vars

\* The record passes every filter of the loop.
PassesFilters(record) ==
    /\ record.GeoFootprint = "ok"
    /\ record.coverage >= FilterSettings.min_aoi
    /\ record.cloudCover.kind \in { "num", "str" }
          => record.cloudCover.value <= FilterSettings.max_cloud
    /\ record.ContentLength # -1 => record.ContentLength >= MinContentLength

Kept(i) == \E k \in 1..Len(processed_products) : processed_products[k].Name = i - 1

----------------------------------------------------------------------------
\* scheduler.py, collection_core.py: the settings of a job on their way from
\* execute_job through run_collection to auto_select_products.

AllStrategies ==
    { "best_n", "all_above_threshold", "best_per_week", "coverage_greedy",
      "coverage_optimal" }

\* grid_spacing_meters = None
NoSpacing == 0

\* AutoSelectConfig: the fields the selection reads. Weights are in tenths,
\* min_coverage_fraction is <<numerator, denominator>>.
AutoSelectConfigs ==
    [ strategy                : AllStrategies,
      max_products            : MaxProductsChoices,
      min_coverage_fraction   : CoverageFractions,
      grid_spacing_meters     : { NoSpacing, 100 },
      solver_timeout_seconds  : { 60, 300 },
      coverage_cloud_weight   : { 3, 5 },
      coverage_quality_weight : { 7 } ]

\* The defaults of run_collection's parameters.
RunCollectionDefaults ==
    [ auto_select_strategy    |-> "best_n",
      max_products            |-> 5,
      min_coverage_fraction   |-> << 99, 100 >>,
      grid_spacing_meters     |-> NoSpacing,
      solver_timeout          |-> 300,
      coverage_cloud_weight   |-> 3,
      coverage_quality_weight |-> 7 ]

\* The keywords of the run_collection call in execute_job, among the
\* parameters above.
ExecuteJobKeywords == { "auto_select_strategy", "max_products" }

\* The field of job_config.auto_select a parameter of run_collection stands for.
Configured(auto_select, parameter) ==
    CASE parameter = "auto_select_strategy"    -> auto_select.strategy
      [] parameter = "max_products"            -> auto_select.max_products
      [] parameter = "min_coverage_fraction"   -> auto_select.min_coverage_fraction
      [] parameter = "grid_spacing_meters"     -> auto_select.grid_spacing_meters
      [] parameter = "solver_timeout"          -> auto_select.solver_timeout_seconds
      [] parameter = "coverage_cloud_weight"   -> auto_select.coverage_cloud_weight
      [] parameter = "coverage_quality_weight" -> auto_select.coverage_quality_weight

\* The binding of run_collection's parameters by the call in execute_job: a
\* parameter the call names gets the job's value, any other its default.
ExecuteJobCall(auto_select) ==
    [ parameter \in DOMAIN RunCollectionDefaults |->
        IF parameter \in ExecuteJobKeywords
        THEN Configured(auto_select, parameter)
        ELSE RunCollectionDefaults[parameter] ]

InitExecute ==
    /\ job_config \in [ auto_select : AutoSelectConfigs ]
    /\ params = << >>
    /\ pc = "execute_job"
    /\ processed_products = << >>
    /\ args = [strategy |-> "", max_products |-> 0,
               min_coverage_fraction |-> DefaultFraction, weights |-> DefaultWeights]
    /\ selected = << >>
    /\ SelectIdle
    /\ CoverageIdle
    /\ CollectIdle
    /\ FetchIdle
    /\ SchedIdle
    /\ FilterIdle

\* execute_job calls run_collection.
ExecuteJob ==
    /\ pc = "execute_job"
    /\ params' = ExecuteJobCall(job_config.auto_select)
    /\ pc' = "run_collection"
    /\ UNCHANGED << job_config, processed_products, args, selected, coverage_vars,
                    select_vars, collect_vars, fetch_vars, sched_vars, filter_vars >>

\* run_collection calls auto_select_products with its own parameters; a
\* coverage strategy hands min_coverage_fraction, grid_spacing_meters,
\* solver_timeout and the two coverage weights on to select_covering_products.
CallAutoSelect ==
    /\ pc = "run_collection"
    /\ args' = [ strategy              |-> params.auto_select_strategy,
                 max_products          |-> params.max_products,
                 min_coverage_fraction |-> params.min_coverage_fraction,
                 weights               |-> << params.coverage_cloud_weight,
                                              params.coverage_quality_weight >>,
                 grid_spacing_meters   |-> params.grid_spacing_meters,
                 solver_timeout        |-> params.solver_timeout ]
    /\ pc' = "auto_select"
    /\ UNCHANGED << job_config, params, processed_products, selected, coverage_vars,
                    select_vars, collect_vars, fetch_vars, sched_vars, filter_vars >>

NextExecute ==
    \/ ExecuteJob
    \/ CallAutoSelect

SpecExecute == InitExecute /\ [][NextExecute]_vars

----------------------------------------------------------------------------
\* scheduler.py, scheduler_daemon.py, config_schema.py: the scheduler daemon

MaxJobs == 2

\* day_of_week of a weekly schedule as yaml.safe_load delivers it: a string
\* (field str) or an integer (field int).
StrDay(s) == [type |-> "str", str |-> s, int |-> 0]
IntDay(n) == [type |-> "int", str |-> "", int |-> n]
DayOfWeekValues ==
    { StrDay("monday"), StrDay("3"), StrDay("7"), StrDay("someday"),
      IntDay(3), IntDay(7) }

valid_days ==
    << "monday", "tuesday", "wednesday", "thursday", "friday", "saturday", "sunday" >>

\* int(s) of a string of one decimal digit; any other string drawn here
\* ("someday", a day name) makes int raise ValueError.
DecimalStrings == << "0", "1", "2", "3", "4", "5", "6", "7", "8", "9" >>
IsDecimal(s) == \E k \in 1..Len(DecimalStrings) : DecimalStrings[k] = s
int(s) == (CHOOSE k \in 1..Len(DecimalStrings) : DecimalStrings[k] = s) - 1

\* ScheduleConfig.__post_init__ for type "weekly": TRUE iff no ValueError is
\* raised. Only a string is examined: a day name, or a number 0..6; a value
\* that is not a string passes.
ScheduleConfig(day_of_week) ==
    IF day_of_week.type = "str"
    THEN \/ \E k \in 1..Len(valid_days) : valid_days[k] = day_of_week.str
         \/ IsDecimal(day_of_week.str) /\ int(day_of_week.str) \in 0..6
    ELSE TRUE

\* _create_weekly_trigger: day_num is the position of the day name, int() of
\* another string, or the value itself; CronTrigger(day_of_week=day_num)
\* raises ValueError unless day_num is in 0..6.
create_weekly_trigger(day_of_week) ==
    LET named   == day_of_week.type = "str"
                   /\ \E k \in 1..Len(valid_days) : valid_days[k] = day_of_week.str
        day_num ==
            IF named
            THEN (CHOOSE k \in 1..Len(valid_days) : valid_days[k] = day_of_week.str) - 1
            ELSE IF day_of_week.type = "str"
                 THEN (IF IsDecimal(day_of_week.str) THEN int(day_of_week.str) ELSE -1)
            ELSE day_of_week.int
    IN  IF day_num \in 0..6 THEN "ok" ELSE "rejected"

\* A job of the configuration file: enabled or not, with a weekly schedule.
\* trigger: what _create_trigger does with the schedule, "ok" or "rejected"
\* (it raises).
Job(enabled, day_of_week) ==
    [enabled |-> enabled, day_of_week |-> day_of_week,
     trigger |-> create_weekly_trigger(day_of_week)]

JobKinds ==
    { Job(TRUE, d) : d \in DayOfWeekValues } \cup { Job(FALSE, StrDay("monday")) }

\* load_config: every job's ScheduleConfig is built, whether the job is
\* enabled or not; a ValueError of any of them rejects the configuration.
load_config(cfg) == \A j \in DOMAIN cfg.jobs : ScheduleConfig(cfg.jobs[j].day_of_week)

\* Configuration files: at least one job, distinct names (0, 1, ...),
\* max_concurrent_jobs > 0, job_max_instances > 0.
SchedulerConfigs ==
    { [ jobs |-> js, max_concurrent_jobs |-> c, job_max_instances |-> i ] :
        js \in UNION { [0..(n - 1) -> JobKinds] : n \in 1..MaxJobs },
        c \in { 1, 2 }, i \in { 1, 2 } }

\* BackgroundScheduler(job_defaults={coalesce, max_instances}): no executor is
\* configured, so jobs run in the default thread pool of 10 workers.
PoolWorkers == 10

\* setup_jobs adding its jobs one by one and giving up at the first job whose
\* trigger is rejected.
AddJobs_StopAtFailure(cfg) ==
    { j \in DOMAIN cfg.jobs :
        /\ cfg.jobs[j].enabled
        /\ \A i \in DOMAIN cfg.jobs :
              i <= j => ~(cfg.jobs[i].enabled /\ cfg.jobs[i].trigger = "rejected") }

\* The loop of setup_jobs: a disabled job is skipped; a job whose trigger or
\* add_job raises is logged and the loop goes on.
AddJobs(cfg) ==
    { j \in DOMAIN cfg.jobs : cfg.jobs[j].enabled /\ cfg.jobs[j].trigger = "ok" }

\* run_scheduler: "if pid_file: write_pid_file(pid_file)"
write_pid_file(f) == IF f = "not_given" THEN f ELSE "exists"

\* run_scheduler's finally: "if pid_file: remove_pid_file(pid_file)", which
\* removes the file if it exists.
remove_pid_file(f) == IF f = "exists" THEN "absent" ELSE f

\* Number of job instances executing.
Executing == SumOver(running, DOMAIN running)

\* BaseScheduler.shutdown: raises SchedulerNotRunningError unless the
\* scheduler is running.
shutdown(state) == IF state = "running" THEN "stopped" ELSE "SchedulerNotRunningError"

InitScheduler ==
    /\ config \in SchedulerConfigs
    /\ scheduler = "none"
    /\ jobs = {}
    /\ running = [j \in DOMAIN config.jobs |-> 0]
    /\ failed = {}
    /\ daemon_pc = "validate_startup"
    /\ signal_at = "none"
    /\ exit_code = -1
    /\ pid_file \in { "not_given", "absent" }
    /\ pc = "start"
    /\ processed_products = << >>
    /\ args = [strategy |-> "", max_products |-> 0,
               min_coverage_fraction |-> DefaultFraction, weights |-> DefaultWeights]
    /\ selected = << >>
    /\ SelectIdle
    /\ CoverageIdle
    /\ CollectIdle
    /\ FetchIdle
    /\ FilterIdle
    /\ ExecuteIdle

collection_vars == << processed_products, pc, args, selected, coverage_vars,
                      select_vars, collect_vars, fetch_vars, filter_vars,
                      execute_vars >>

\* main: validate_startup loads the configuration; if load_config raises,
\* main exits with 1 before run_scheduler is called.
ValidateStartup ==
    /\ daemon_pc = "validate_startup"
    /\ IF load_config(config)
       THEN /\ daemon_pc' = "run_scheduler"
            /\ UNCHANGED exit_code
       ELSE /\ daemon_pc' = "exited"
            /\ exit_code' = 1
    /\ UNCHANGED << config, pid_file, scheduler, jobs, running, failed, signal_at,
                    collection_vars >>

\* run_scheduler enters its try block and writes the PID file if one is given.
WritePidFile ==
    /\ daemon_pc = "run_scheduler"
    /\ pid_file' = write_pid_file(pid_file)
    /\ daemon_pc' = "setup_jobs"
    /\ UNCHANGED << config, scheduler, jobs, running, failed, signal_at, exit_code,
                    collection_vars >>

\* run_scheduler: collector = ScheduledCollector(config_path); setup_jobs()
SetupJobs ==
    /\ daemon_pc = "setup_jobs"
    /\ scheduler' = "stopped"
    /\ jobs' = AddJobs(config)
    /\ daemon_pc' = "setup_signal_handlers"
    /\ UNCHANGED << config, pid_file, running, failed, signal_at, exit_code, collection_vars >>

\* setup_signal_handlers: SIGTERM and SIGINT get signal_handler
SetupSignalHandlers ==
    /\ daemon_pc = "setup_signal_handlers"
    /\ daemon_pc' = "start"
    /\ UNCHANGED << config, pid_file, scheduler, jobs, running, failed, signal_at, exit_code,
                    collection_vars >>

\* collector.start()
Start ==
    /\ daemon_pc = "start"
    /\ scheduler' = "running"
    /\ daemon_pc' = "started"
    /\ UNCHANGED << config, pid_file, jobs, running, failed, signal_at, exit_code,
                    collection_vars >>

\* collector.run_forever() enters its try block and sleeps.
RunForever ==
    /\ daemon_pc = "started"
    /\ scheduler = "running"
    /\ daemon_pc' = "run_forever"
    /\ UNCHANGED << config, pid_file, scheduler, jobs, running, failed, signal_at, exit_code,
                    collection_vars >>

\* The trigger of job j fires and the scheduler submits execute_job to the
\* pool: the job has fewer than max_instances instances running.
TriggerFires(j) ==
    /\ scheduler = "running"
    /\ j \in jobs
    /\ running[j] < config.job_max_instances
    /\ Executing < PoolWorkers
    /\ running' = [running EXCEPT ![j] = @ + 1]
    /\ UNCHANGED << config, pid_file, scheduler, jobs, failed, daemon_pc, signal_at, exit_code,
                    collection_vars >>

\* execute_job ends: run_collection returned success ("success") or
\* success = false ("failed", logged), or an exception left execute_job
\* ("raised", re-raised to the executor, which reports EVENT_JOB_ERROR).
ExecuteJobEnds(j, outcome) ==
    /\ j \in DOMAIN running
    /\ running[j] > 0
    /\ running' = [running EXCEPT ![j] = @ - 1]
    /\ failed' = IF outcome = "success" THEN failed ELSE failed \cup { j }
    /\ UNCHANGED << config, pid_file, scheduler, jobs, daemon_pc, signal_at, exit_code,
                    collection_vars >>

\* SIGTERM or SIGINT arrives once the handlers are installed; signal_handler
\* runs in the main thread and calls collector.stop(), i.e.
\* scheduler.shutdown(wait=True). On a scheduler that is not running shutdown
\* raises; the exception surfaces in run_scheduler's try, whose
\* "except Exception" exits with 1.
SignalHandler ==
    /\ daemon_pc \in { "start", "started", "run_forever" }
    /\ signal_at = "none"
    /\ signal_at' = daemon_pc
    /\ IF shutdown(scheduler) = "SchedulerNotRunningError"
       THEN /\ daemon_pc' = "exited"
            /\ exit_code' = 1
            /\ pid_file' = remove_pid_file(pid_file)
            /\ UNCHANGED scheduler
       ELSE /\ scheduler' = "stopped"
            /\ daemon_pc' = "signal_handler"
            /\ UNCHANGED << exit_code, pid_file >>
    /\ UNCHANGED << config, jobs, running, failed, collection_vars >>

\* SIGTERM or SIGINT arrives before setup_signal_handlers has installed the
\* handlers, while the main thread is in run_scheduler's try block. SIGINT has
\* Python's default handler: KeyboardInterrupt is raised, caught by
\* "except KeyboardInterrupt", the finally clause runs and the process exits
\* with 0. SIGTERM has the default disposition: the process is terminated
\* at once (status 128 + 15) and no except or finally clause runs.
DefaultSignal(sig) ==
    /\ daemon_pc \in { "setup_jobs", "setup_signal_handlers" }
    /\ signal_at = "none"
    /\ signal_at' = daemon_pc
    /\ daemon_pc' = "exited"
    /\ IF sig = "SIGINT"
       THEN /\ exit_code' = 0
            /\ pid_file' = remove_pid_file(pid_file)
       ELSE /\ exit_code' = 143
            /\ UNCHANGED pid_file
    /\ UNCHANGED << config, scheduler, jobs, running, failed, collection_vars >>

\* shutdown(wait=True) returns when the running jobs have finished; the
\* handler then calls sys.exit(0). SystemExit is raised where the main thread
\* was interrupted:
\*   before run_forever's try, it leaves run_scheduler (no handler there
\*   catches SystemExit) and the process exits with 0;
\*   inside run_forever's try, "except (KeyboardInterrupt, SystemExit)" catches
\*   it and calls self.stop() again: shutdown on the stopped scheduler raises,
\*   and run_scheduler's "except Exception" exits with 1.
SignalHandlerExits ==
    /\ daemon_pc = "signal_handler"
    /\ Executing = 0
    /\ daemon_pc' = "exited"
    /\ exit_code' = IF signal_at = "run_forever"
                    THEN (IF shutdown(scheduler) = "SchedulerNotRunningError"
                          THEN 1 ELSE 0)
                    ELSE 0
    /\ pid_file' = remove_pid_file(pid_file)
    /\ UNCHANGED << config, scheduler, jobs, running, failed, signal_at,
                    collection_vars >>

NextScheduler ==
    \/ ValidateStartup
    \/ WritePidFile
    \/ SetupJobs
    \/ SetupSignalHandlers
    \/ Start
    \/ RunForever
    \/ \E j \in 0..(MaxJobs - 1) : TriggerFires(j)
    \/ \E j \in 0..(MaxJobs - 1), outcome \in { "success", "failed", "raised" } :
          ExecuteJobEnds(j, outcome)
    \/ \E sig \in { "SIGTERM", "SIGINT" } : DefaultSignal(sig)
    \/ SignalHandler
    \/ SignalHandlerExits

SpecScheduler == InitScheduler /\ [][NextScheduler]_vars

\* C18 as stated: in every reachable scheduler state the number of collection
\* jobs executing, across all configured jobs, is at most max_concurrent_jobs.
C18_GlobalConcurrencyCap == Executing <= config.max_concurrent_jobs

\* Job j is enabled and its own schedule is accepted.
Addable(j) == config.jobs[j].enabled /\ config.jobs[j].trigger = "ok"

\* Another job than k has failed: an execution of it raised or returned
\* success = false, or it could not be added in setup_jobs.
OtherJobFailed(k) ==
    \E j \in DOMAIN config.jobs :
        /\ j # k
        /\ \/ j \in failed
           \/ config.jobs[j].enabled /\ config.jobs[j].trigger = "rejected"

\* C19: when another job has failed (raised, returned success = false, or
\* could not be added), every enabled job with an accepted schedule is still
\* among the scheduler's jobs, and while the scheduler runs its trigger still
\* starts an execution whenever the job has an instance to spare.
C19_JobFailureIsolation ==
    \A k \in DOMAIN config.jobs :
        (scheduler # "none" /\ Addable(k) /\ OtherJobFailed(k)) =>
            /\ k \in jobs
            /\ (scheduler = "running" /\ running[k] < config.job_max_instances)
                  => ENABLED TriggerFires(k)

\* A job is executing while another one has failed and is no longer running.
C19_Witness ==
    \E j, k \in DOMAIN config.jobs :
        /\ j # k
        /\ j \in failed
        /\ running[j] = 0
        /\ running[k] > 0
        /\ scheduler = "running"

\* The daemon received the signal while the scheduler was running.
SignalledWhileRunning == signal_at \in { "started", "run_forever" }

\* C20 as stated: when the running daemon receives SIGTERM or SIGINT, the
\* scheduler is stopped with the running jobs finished and the process exits
\* with code 0.
C20_CleanShutdownExitCode ==
    (daemon_pc = "exited" /\ SignalledWhileRunning)
        => /\ exit_code = 0
           /\ scheduler = "stopped"
           /\ Executing = 0
\* C21: when run_scheduler was given --pid-file and wrote the file, the file
\* no longer exists when the process has ended, on whatever path it ended.
C21_PidFileRemovedOnExit == daemon_pc = "exited" => pid_file # "exists"
\* The day_of_week values the configuration format allows: a weekday name
\* monday..sunday or an integer 0..6, as a string or as an integer.
DayOfWeekAllowed(day_of_week) ==
    IF day_of_week.type = "str"
    THEN \/ \E k \in 1..Len(valid_days) : valid_days[k] = day_of_week.str
         \/ IsDecimal(day_of_week.str) /\ int(day_of_week.str) \in 0..6
    ELSE day_of_week.int \in 0..6

\* C22: a configuration with a weekly job whose day_of_week is not allowed is
\* rejected by load_config: the daemon never gets past validate_startup with
\* it, setup_jobs never runs and no job of it is scheduled.
C22_InvalidDayOfWeekRejected ==
    (\E j \in DOMAIN config.jobs : ~DayOfWeekAllowed(config.jobs[j].day_of_week))
        => /\ daemon_pc \in { "validate_startup", "exited" }
           /\ scheduler = "none"
           /\ jobs = {}
----------------------------------------------------------------------------
\* Properties of the solvers' steps

\* The greedy loop has just appended a candidate.
GreedyAppends == pc = "greedy" /\ selected_indices' # selected_indices

\* The candidate position the greedy loop appends in this step.
Appended == selected_indices'[Len(selected_indices')]

\* gain_j of candidate position j before the step.
MarginalGain(j) == Cardinality(coverage_sets[j] \cap uncovered_points)

\* C24: every iteration of the greedy loop that appends a candidate appends
\* exactly one, with marginal gain >= 1 and not selected before, and leaves
\* strictly fewer uncovered points.
C24_GreedyStrictProgress ==
    [][GreedyAppends =>
          /\ selected_indices' = Append(selected_indices, Appended)
          /\ MarginalGain(Appended) >= 1
          /\ Appended \notin Range(selected_indices)
          /\ Cardinality(uncovered_points') < Cardinality(uncovered_points)
          /\ Distinct(selected_indices')]_vars

\* The greedy loop has made two selections.
C24_Witness ==
    /\ pc = "greedy"
    /\ Len(selected_indices) = 2
    /\ Cardinality(uncovered_points) < total_points - 1

\* gain_j / cost_j of candidate j is at least, resp. equal to, that of k.
RatioCost(j) == Cost(candidates[j], args.weights[1], args.weights[2], den)
RatioAtLeast(j, k) == MarginalGain(j) * RatioCost(k) >= MarginalGain(k) * RatioCost(j)
RatioEqual(j, k) == MarginalGain(j) * RatioCost(k) = MarginalGain(k) * RatioCost(j)

\* C25: the candidate a greedy iteration selects has the greatest gain/cost
\* among the unselected candidates of positive gain, and the lowest position
\* among those of that ratio; the selection is thereby a function of the
\* instance, and the result greedy_set_cover returns is the one it returns on
\* any other run on the instance.
C25_GreedyTieBreak ==
    [][/\ GreedyAppends =>
             \A k \in 1..Len(candidates) :
                (k \notin Range(selected_indices) /\ MarginalGain(k) >= 1) =>
                    /\ RatioAtLeast(Appended, k)
                    /\ RatioEqual(Appended, k) => Appended <= k
       /\ (pc = "greedy" /\ pc' = "return") => result' = GreedyOnInstance]_vars

\* The greedy loop selected the first of two candidates of equal gain/cost.
C25_Witness ==
    /\ pc = "greedy"
    /\ Len(candidates) = 2
    /\ selected_indices = << 1 >>
    /\ coverage_sets[2] # {}
    /\ Cardinality(coverage_sets[1]) * RatioCost(2)
          = Cardinality(coverage_sets[2]) * RatioCost(1)
\* The call runs a coverage strategy and has not returned yet.
CoverageRunning ==
    /\ args.strategy \in { "coverage_greedy", "coverage_optimal" }
    /\ pc \in { "greedy", "milp", "milp_returned", "return" }

\* C26: a call of auto_select_products with a coverage strategy on a
\* non-empty product list always has a next step until it has returned (no
\* exception leaves it, no step is missing), its greedy loop makes at most one
\* selection per candidate, and what it returns is a list of products of the
\* input, whether it comes from the solver or from the fallback to best_n.
C26_CoverageRunCompletes ==
    /\ CoverageRunning => /\ ENABLED Next
                          /\ iteration <= Len(candidates)
    /\ (pc = "done" /\ args.strategy \in { "coverage_greedy", "coverage_optimal" })
          => /\ \A k \in 1..Len(selected) :
                   selected[k] \in 0..(Len(processed_products) - 1)
             /\ fallback = "none" <=> result # NoResult

\* A coverage_optimal call has returned the selection of the greedy run that
\* followed a failed MILP, with the target missed.
C26_Witness ==
    /\ pc = "done"
    /\ args.strategy = "coverage_optimal"
    /\ fallback = "none"
    /\ result.solver_type = "greedy"
    /\ result.coverage_fraction < target_points
\* C28: every assignment (x, p) that satisfies the constraints of the binary
\* program selects candidates whose coverage sets together hold at least
\* floor(M * f) sample points, and every result with solver_type "milp" has at
\* least that many points covered.
C28_MilpSelectionsMeetTarget ==
    /\ pc \in { "milp", "milp_returned" } =>
          \A X \in SUBSET (1..Len(coverage_sets)) :
             \A P \in SUBSET (0..(total_points - 1)) :
                MilpConstraints(X, P, coverage_sets, total_points, target_points)
                    => Cardinality(UnionOver(coverage_sets, X)) >= target_points
    /\ milp # NoResult => milp.coverage_fraction >= target_points
    /\ MilpReturned => result.coverage_fraction >= target_points

\* A time-limited solve returned a selection of both candidates that meets a
\* target of at least one point.
C28_Witness ==
    /\ pc = "done"
    /\ MilpReturned
    /\ ~result.optimal
    /\ result.num_selected = 2
    /\ target_points >= 1
    /\ result.coverage_fraction >= target_points
\* A solver is at work: greedy_set_cover, optimal_set_cover_milp, or the
\* step between them.
InSolver == pc \in { "greedy", "milp", "milp_returned" }

\* C27: no step of greedy_set_cover or optimal_set_cover_milp changes a
\* candidate or a coverage set, and the greedy run that follows a failed MILP
\* starts as a direct greedy run does: on the same candidates and coverage
\* sets, with every sample point uncovered and nothing selected.
C27_SolversReadOnly ==
    [][/\ InSolver => /\ candidates' = candidates
                      /\ coverage_sets' = coverage_sets
       /\ (pc = "milp_returned" /\ pc' = "greedy")
             => /\ uncovered_points' = 0..(total_points - 1)
                /\ selected_indices' = << >>
                /\ coverage_sets' =
                      build_coverage_matrix(processed_products, candidates, total_points)]_vars

\* The greedy run after a failed MILP has made a selection that leaves one of
\* two overlapping candidates unselected.
C27_Witness ==
    /\ pc = "greedy"
    /\ args.strategy = "coverage_optimal"
    /\ Len(candidates) = 2
    /\ Len(selected_indices) = 1
    /\ coverage_sets[1] \cap coverage_sets[2] # {}
====
